---------------------------- MODULE Spec2Model ----------------------------
(***************************************************************************)
(* Model of the B2912A automated sheet-resistance test program:            *)
(*   GUIv0.8/utils/currgen.py    WaveGen (safety check, square wave)       *)
(*   GUIv0.8/app.py              sample validation, reversal averaging and *)
(*                               the Streamlit script (one top-to-bottom   *)
(*                               run per UI event, st.session_state kept)  *)
(*   GUIv0.8/utils/target_op.py  the instrument object, seen from app.py   *)
(*                                                                         *)
(* Units.  Currents are integers counted in microamperes, voltages are     *)
(* integers counted in microvolts, so a voltage/current ratio is in ohms.  *)
(* A magnitude exponent e (unit_mapping: A -> 0, mA -> -3, uA -> -6)       *)
(* scales a displayed value v to v * 10^(e+6) microamperes.  Python floats *)
(* are modelled by exact integers and exact fractions; results that numpy  *)
(* reports as nan or inf are kept as such.  The duty cycle is an exact     *)
(* fraction [num, den]; int(period * duty_cycle) is its exact floor.       *)
(***************************************************************************)
EXTENDS Integers, Sequences, FiniteSets

VARIABLES
    session_state,  \* st.session_state: the keys the script keeps across runs
    shown,          \* what the last UI event displayed / did on the device
    run_failed,     \* history: Measure_List failed since the last Start Test click
    call,           \* unit harness: the function call under check
    ret             \* unit harness: its return value

vars == <<session_state, shown, run_failed, call, ret>>

-----------------------------------------------------------------------------
(* Python values *)

Absent == "absent"      \* key not in st.session_state / not in a dict
None   == "None"        \* Python None

\* a value that is None or a float: the float as [t |-> "float", v |-> x]
NoneValue == [t |-> "None", v |-> 0]

Abs(x) == IF x < 0 THEN -x ELSE x

RECURSIVE Pow10(_)
Pow10(k) == IF k <= 0 THEN 1 ELSE 10 * Pow10(k - 1)

RECURSIVE Gcd(_, _)
Gcd(a, b) == IF b = 0 THEN a ELSE Gcd(b, a % b)

(* A float result: the fraction n/d in lowest terms with d > 0, or         *)
(* d = 0 for the non-finite floats: n = 0 nan, n = 1 inf, n = -1 -inf.     *)
Sign(n) == IF n > 0 THEN 1 ELSE IF n < 0 THEN -1 ELSE 0

Frac(n, d) ==
    IF d = 0 THEN [n |-> Sign(n), d |-> 0]
    ELSE LET g == Gcd(Abs(n), Abs(d))
         IN  [n |-> Sign(n) * Sign(d) * (Abs(n) \div g), d |-> Abs(d) \div g]

NaN == [n |-> 0, d |-> 0]
IsNaN(x) == x.d = 0 /\ x.n = 0
IsFinite(x) == x.d > 0

FracNeg(x) == [n |-> -x.n, d |-> x.d]
FracAbs(x) == [n |-> Abs(x.n), d |-> x.d]

\* x + y; inf + (-inf) is nan
FracAdd(x, y) ==
    IF IsNaN(x) \/ IsNaN(y) THEN NaN
    ELSE IF x.d = 0 /\ y.d = 0 THEN (IF x.n = y.n THEN x ELSE NaN)
    ELSE IF x.d = 0 THEN x
    ELSE IF y.d = 0 THEN y
    ELSE LET g == Gcd(x.d, y.d)
         IN  Frac(x.n * (y.d \div g) + y.n * (x.d \div g), (x.d \div g) * y.d)

FracSub(x, y) == FracAdd(x, FracNeg(y))

\* x <= y; any comparison with nan is False
FracLeq(x, y) ==
    IF IsNaN(x) \/ IsNaN(y) THEN FALSE
    ELSE IF x.d = 0 THEN (x.n < 0 \/ (y.d = 0 /\ y.n > 0))
    ELSE IF y.d = 0 THEN y.n > 0
    ELSE LET g == Gcd(x.d, y.d)
         IN  x.n * (y.d \div g) <= y.n * (x.d \div g)

\* x * (num/den) for integers num >= 0, den > 0
FracScale(x, num, den) ==
    IF x.d = 0 THEN x ELSE Frac(x.n * num, x.d * den)

\* x / k for an integer k > 0
FracDivInt(x, k) ==
    IF x.d = 0 THEN x
    ELSE LET g == Gcd(Abs(x.n), k) IN Frac(x.n \div g, x.d * (k \div g))

\* x / y as numpy float64 division: a zero divisor gives inf, -inf or nan
FracDiv(x, y) ==
    IF IsNaN(x) \/ IsNaN(y) THEN NaN
    ELSE IF y.n = 0 THEN Frac(Sign(x.n), 0)
    ELSE LET g1 == Gcd(Abs(x.n), Abs(y.n))
             g2 == Gcd(x.d, y.d)
         IN  Frac(Sign(y.n) * (x.n \div g1) * (y.d \div g2),
                  (x.d \div g2) * (Abs(y.n) \div g1))

\* the sum of s[lo..hi], by halves
RECURSIVE SumRange(_, _, _)
SumRange(s, lo, hi) ==
    IF lo > hi THEN 0
    ELSE IF lo = hi THEN s[lo]
    ELSE SumRange(s, lo, (lo + hi) \div 2) + SumRange(s, (lo + hi) \div 2 + 1, hi)

SumSeq(s) == SumRange(s, 1, Len(s))

\* pandas Series.mean(): nan for an empty series
Mean(s) == IF s = <<>> THEN NaN ELSE Frac(SumSeq(s), Len(s))

\* Python slice s[a:b] of a sequence, 0-based, clipped to the sequence
Slice(s, a, b) ==
    LET lo == IF a > Len(s) THEN Len(s) ELSE a
        hi == IF b > Len(s) THEN Len(s) ELSE b
    IN  IF hi <= lo THEN <<>> ELSE [j \in 1..(hi - lo) |-> s[lo + j]]

-----------------------------------------------------------------------------
(* utils/currgen.py *)

\* WaveGen.__init__: self.magnitude = 10 ** magnitude (here in microamperes
\* per displayed unit), self.threshold = threshold (amperes, in microamperes)
WaveGen(magnitude, threshold) ==
    [magnitude |-> Pow10(magnitude + 6), threshold |-> threshold * Pow10(6)]

\* WaveGen._check_safety
MutCheckSafetyStrict(self, value) ==
    LET scaled_value == value * self.magnitude
    IN  IF Abs(scaled_value) > self.threshold THEN FALSE ELSE TRUE

check_safety(self, value) ==
    LET scaled_value == value * self.magnitude
    IN  IF Abs(scaled_value) >= self.threshold THEN FALSE ELSE TRUE

\* numpy slice assignment square_wave[a:b] = v (0-based a..b-1, clipped)
SliceAssign(w, a, b, v) ==
    [j \in 1..Len(w) |-> IF a < j /\ j <= b THEN v ELSE w[j]]

\* the while loop of generate_square_wave, from write index i
RECURSIVE square_loop(_, _, _, _, _, _, _)
square_loop(square_wave, i, length, high_value, low_value, period, high_duration) ==
    IF ~(i < length) THEN square_wave
    ELSE IF ~(i + high_duration <= length)
         THEN SliceAssign(square_wave, i, length, high_value)
    ELSE LET w1 == SliceAssign(square_wave, i, i + high_duration, high_value)
             i1 == i + high_duration
         IN  IF ~(i1 + (period - high_duration) <= length)
             THEN SliceAssign(w1, i1, length, low_value)
             ELSE square_loop(
                      SliceAssign(w1, i1, i1 + (period - high_duration), low_value),
                      i1 + (period - high_duration),
                      length, high_value, low_value, period, high_duration)

\* a rounding up of the high duration
MutHighDurationCeil(period, duty_cycle) ==
    (period * duty_cycle.num + duty_cycle.den - 1) \div duty_cycle.den

\* int(period * duty_cycle)
HighDuration(period, duty_cycle) == (period * duty_cycle.num) \div duty_cycle.den

\* WaveGen.generate_square_wave; the two verdicts it computes are returned
\* with the array so that their use (none) is visible to the callers
generate_square_wave(self, length, high_value, low_value, period, duty_cycle, init_time) ==
    LET hi_safe == check_safety(self, high_value)
        lo_safe == check_safety(self, low_value)
        high    == high_value * self.magnitude
        low     == low_value * self.magnitude
        zeros   == [j \in 1..length |-> 0]
        high_duration == HighDuration(period, duty_cycle)
    IN  [square_wave |-> square_loop(zeros, init_time, length, high, low,
                                     period, high_duration),
         hi_safe |-> hi_safe,
         lo_safe |-> lo_safe]

-----------------------------------------------------------------------------
(* app.py: functions of the numeric pipeline *)

\* is_current_in_range(row, col1, col2); 0.7 and 1.3 are kept as 7/10, 13/10
MutInRangeStrictUpper(row) ==
    LET source  == Abs(row.Source)
        current == Abs(row.Current)
    IN  source * 7 <= current * 10 /\ current * 10 < source * 13

is_current_in_range(row) ==
    LET source  == Abs(row.Source)
        current == Abs(row.Current)
        lower_bound10 == source * 7
        upper_bound10 == source * 13
    IN  lower_bound10 <= current * 10 /\ current * 10 <= upper_bound10

Column(df, col) == [j \in 1..Len(df) |-> df[j][col]]
AbsColumn(df, col) == [j \in 1..Len(df) |-> Abs(df[j][col])]

\* out_of_range_count / total_rows >= 0.2 (0/0 is nan, and nan >= 0.2 is False)
MutInvalidAbove(out_of_range_count, total_rows) ==
    IF total_rows = 0 THEN FALSE ELSE 5 * out_of_range_count > total_rows

InvalidFraction(out_of_range_count, total_rows) ==
    IF total_rows = 0 THEN FALSE ELSE 5 * out_of_range_count >= total_rows

\* reverse_p and the two window means of one series (app.py 650-653 / 688-691)
MutVoltCorrectedNoHalf(test_param, Voltage) ==
    LET reverse_p == test_param.initial_zero
                       + HighDuration(test_param.period, test_param.duty_cycle)
    IN  FracSub(Mean(Slice(Voltage, test_param.initial_zero, reverse_p)),
                Mean(Slice(Voltage, reverse_p,
                           test_param.initial_zero + test_param.period)))

VoltCorrected(test_param, Voltage) ==
    LET reverse_p == test_param.initial_zero
                       + HighDuration(test_param.period, test_param.duty_cycle)
    IN  FracDivInt(
            FracSub(Mean(Slice(Voltage, test_param.initial_zero, reverse_p)),
                    Mean(Slice(Voltage, reverse_p,
                               test_param.initial_zero + test_param.period))),
            2)

\* abs(df['Current']).mean()
AvgCurr(df) == Mean(AbsColumn(df, "Current"))

\* np.median / np.mean over a list of float results
RECURSIVE Insert(_, _)
Insert(x, s) ==
    IF s = <<>> THEN <<x>>
    ELSE IF FracLeq(x, Head(s)) THEN <<x>> \o s
    ELSE <<Head(s)>> \o Insert(x, Tail(s))

RECURSIVE Sort(_)
Sort(s) == IF s = <<>> THEN <<>> ELSE Insert(Head(s), Sort(Tail(s)))

\* a median that takes the lower middle element of an even-length list
MutMedianLowerMiddle(s) ==
    IF s = <<>> \/ (\E j \in 1..Len(s) : IsNaN(s[j])) THEN NaN
    ELSE Sort(s)[(Len(s) + 1) \div 2]

Median(s) ==
    IF s = <<>> \/ (\E j \in 1..Len(s) : IsNaN(s[j])) THEN NaN
    ELSE LET t == Sort(s)
             n == Len(s)
         IN  IF n % 2 = 1 THEN t[(n + 1) \div 2]
             ELSE FracScale(FracAdd(t[n \div 2], t[n \div 2 + 1]), 1, 2)

RECURSIVE FracSum(_)
FracSum(s) == IF s = <<>> THEN Frac(0, 1) ELSE FracAdd(Head(s), FracSum(Tail(s)))

\* an average that is the median of the list
MutFracMeanIsMedian(s) == Median(s)

FracMean(s) == IF s = <<>> THEN NaN ELSE FracScale(FracSum(s), 1, Len(s))

\* a filter that keeps only the values strictly inside the limit
MutOutliersStrict(data, threshold) ==
    LET median     == Median(data)
        deviations == [j \in 1..Len(data) |-> FracAbs(FracSub(data[j], median))]
        amd        == Median(deviations)
        limit      == FracScale(amd, threshold.num, threshold.den)
        mask(x)    == /\ FracLeq(FracAbs(FracSub(x, median)), limit)
                      /\ FracAbs(FracSub(x, median)) # limit
    IN  SelectSeq(data, mask)

\* remove_outliers_amd(data, threshold=1.6); the threshold is num/den = 8/5
remove_outliers_amd(data, threshold) ==
    LET median     == Median(data)
        deviations == [j \in 1..Len(data) |-> FracAbs(FracSub(data[j], median))]
        amd        == Median(deviations)
        limit      == FracScale(amd, threshold.num, threshold.den)
        mask(x)    == FracLeq(FracAbs(FracSub(x, median)), limit)
    IN  SelectSeq(data, mask)

DefaultThreshold == [num |-> 8, den |-> 5]

\* thicknessComp / lateralComp as the script selects them (app.py 657-668,
\* 701-711).  The factors are transcendental; they are kept as the call that
\* produces them, and Corr_Rsheet as the product it is built from.
ThicknessComp(test_param) ==
    IF test_param.est_thickness # NoneValue
    THEN [fn |-> "thickness_correction", shape |-> "-"]
    ELSE [fn |-> "1", shape |-> "-"]

LateralComp(sample_shape) ==
    IF sample_shape = "Square"
    THEN [fn |-> "square_lateral_correction", shape |-> sample_shape]
    ELSE [fn |-> "circle_lateral_correction", shape |-> sample_shape]

\* VI * np.pi/np.log(2) * thicknessComp * lateralComp
CorrRsheet(VI, thicknessComp, lateralComp) ==
    [VI |-> VI, thicknessComp |-> thicknessComp, lateralComp |-> lateralComp]

\* manual mode, after a successful measurement: app.py 639-673.  Returns the
\* session keys it writes.
ManualProcess(test_param, Measured_df, curr_adv, sample_shape, auto_result) ==
    LET df == [j \in 1..Len(Measured_df) |->
                  [Voltage  |-> Measured_df[j].Voltage,
                   Current  |-> Measured_df[j].Current,
                   Source   |-> Measured_df[j].Source,
                   In_Range |-> is_current_in_range(Measured_df[j])]]
        out_of_range_count == Cardinality({j \in 1..Len(df) : df[j].In_Range = FALSE})
        total_rows == Len(df)
        Volt_corrected == VoltCorrected(test_param, Column(df, "Voltage"))
        Avg_curr == AvgCurr(df)
        Cal_VI   == FracDiv(Volt_corrected, Avg_curr)
        tp1 == [test_param EXCEPT !.keys = @ \cup {"Volt_corrected", "Avg_curr",
                                                   "Cal_V/I"},
                                  !.Volt_corrected = Volt_corrected,
                                  !.Avg_curr = Avg_curr,
                                  !.Cal_VI = Cal_VI]
        tp2 == IF curr_adv # TRUE
               THEN [tp1 EXCEPT
                       !.keys = @ \cup {"thicknessComp", "lateralComp",
                                        "Corr_Rsheet"},
                       !.thicknessComp = ThicknessComp(test_param),
                       !.lateralComp = LateralComp(sample_shape),
                       !.Corr_Rsheet = CorrRsheet(Cal_VI, ThicknessComp(test_param),
                                                  LateralComp(sample_shape))]
               ELSE tp1
    IN  [Measured_df  |-> df,
         test_invalid |-> IF InvalidFraction(out_of_range_count, total_rows)
                          THEN "True" ELSE None,
         test_param   |-> tp2,
         auto_result  |-> IF curr_adv # TRUE THEN "False" ELSE auto_result]

\* auto mode, after Auto_Test_Initiation left a data frame: app.py 682-721.
\* Measured_df is the list of the per-level column groups, in level order.
RECURSIVE SumCounts(_)
SumCounts(dfs) ==
    IF dfs = <<>> THEN 0
    ELSE Cardinality({j \in 1..Len(Head(dfs)) : Head(dfs)[j].In_Range = FALSE})
           + SumCounts(Tail(dfs))

AutoProcess(test_param, Measured_df, sample_shape) ==
    LET levels == test_param.curr_value.v
        out_of_range_count == SumCounts(Measured_df)
        CorrectedVlist == [i \in 1..Len(levels) |->
                              VoltCorrected(test_param, Column(Measured_df[i], "Voltage"))]
        Avgcurrlist == [i \in 1..Len(levels) |-> AvgCurr(Measured_df[i])]
        Cal_VI == [i \in 1..Len(CorrectedVlist) |->
                      FracDiv(CorrectedVlist[i], Avgcurrlist[i])]
        Cal_VI_filtered == remove_outliers_amd(Cal_VI, DefaultThreshold)
        Avg_VI_filtered == FracMean(Cal_VI_filtered)
        \* len(df): the row count of the concatenated frame
        total_rows == (IF Measured_df = <<>> THEN 0 ELSE Len(Measured_df[1]))
                        * Len(levels)
    IN  [Measured_df  |-> Measured_df,
         test_invalid |-> IF InvalidFraction(out_of_range_count, total_rows)
                          THEN "True" ELSE None,
         test_param   |-> [test_param EXCEPT
                             !.keys = @ \cup {"Cal_V/I", "Cal_V/I_filtered",
                                              "Avg_V/I_filtered", "thicknessComp",
                                              "lateralComp", "Corr_Rsheet"},
                             !.Cal_VI = Cal_VI,
                             !.Cal_VI_filtered = Cal_VI_filtered,
                             !.Avg_VI_filtered = Avg_VI_filtered,
                             !.thicknessComp = ThicknessComp(test_param),
                             !.lateralComp = LateralComp(sample_shape),
                             !.Corr_Rsheet = CorrRsheet(Avg_VI_filtered,
                                                        ThicknessComp(test_param),
                                                        LateralComp(sample_shape))],
         auto_result  |-> "True"]

-----------------------------------------------------------------------------
(* app.py: the Streamlit script.  Every UI event runs the script from top   *)
(* to bottom on st.session_state; st.rerun() starts it again at once; an    *)
(* uncaught exception ends the run with the writes made so far kept.        *)

PyFloat(x) == [t |-> "float", v |-> x]
PyList(xs) == [t |-> "list", v |-> xs]

\* a comparison that takes every entered answer for the affirmative one
MutLowerAnyIsYes(str) == "y"

\* str.lower() on the answers the operator can type here
Lower(str) == IF str = "Y" THEN "y" ELSE IF str = "N" THEN "n" ELSE str

\* test_param = {} (app.py 388-389)
EmptyParam ==
    [keys |-> {}, curr_value |-> [t |-> "absent", v |-> 0],
     magnitude |-> 0, period |-> 0, duty_cycle |-> [num |-> 0, den |-> 1],
     initial_zero |-> 0, repeats |-> 0, est_thickness |-> NoneValue,
     Volt_corrected |-> NaN, Avg_curr |-> NaN, Cal_VI |-> NaN,
     Cal_VI_filtered |-> <<>>, Avg_VI_filtered |-> NaN,
     thicknessComp |-> [fn |-> "-", shape |-> "-"],
     lateralComp |-> [fn |-> "-", shape |-> "-"],
     Corr_Rsheet |-> [VI |-> NaN, thicknessComp |-> [fn |-> "-", shape |-> "-"],
                      lateralComp |-> [fn |-> "-", shape |-> "-"]]]

\* param_dict of manual mode (app.py 399-494)
ManualParamDict(w) ==
    [EmptyParam EXCEPT
        !.keys = {"curr_value"},
        !.curr_value = PyFloat(w.curr_value),
        !.magnitude = w.magnitude,
        !.period = IF w.curr_adv THEN w.period ELSE 100,
        !.duty_cycle = IF w.curr_adv THEN w.duty_cycle ELSE [num |-> 1, den |-> 2],
        !.initial_zero = IF w.curr_adv THEN w.initial_zero ELSE 0,
        !.repeats = IF w.curr_adv THEN w.repeats ELSE 1,
        !.est_thickness = w.est_thickness]

\* a level list that holds one level above the threshold
MutAutoLevelsUnsafe(surf) == <<150, 200, 1000000>>

\* the current levels of auto mode, in microamperes (app.py 515-529)
AutoLevels(surf) ==
    IF surf = "Semiconductor" THEN <<5, 10, 30, 50, 70, 90, 100>>
    ELSE IF surf = "Metal" THEN <<150, 200, 250, 300, 350, 400>>
    ELSE <<5, 30, 50, 70, 100, 200, 400>>

\* param_dict of auto mode (app.py 502-538)
AutoParamDict(w) ==
    [EmptyParam EXCEPT
        !.keys = {"curr_value"},
        !.curr_value = PyList(AutoLevels(w.surf)),
        !.magnitude = -6,
        !.period = 50,
        !.duty_cycle = [num |-> 1, den |-> 2],
        !.initial_zero = 0,
        !.repeats = 1,
        !.est_thickness = w.est_thickness]

\* the generate_square_wave call of app.py 605-610, 620-625 and 242-247
AppSquareWave(wave, test_param, value) ==
    generate_square_wave(wave,
                         test_param.period * test_param.repeats,
                         value, -value,
                         test_param.period,
                         test_param.duty_cycle,
                         test_param.initial_zero)

\* What the instrument answers to one Measure_List call: a failure string, or
\* one sample per forced value.  open: the first samples carry no current.
MeasureSeries(current_data, outcome) ==
    [j \in 1..Len(current_data) |->
        LET cur == IF j <= outcome.open THEN 0 ELSE current_data[j]
        IN  [Voltage |-> outcome.r * cur + outcome.offset,
             Current |-> cur,
             Source  |-> current_data[j]]]

\* one entry of the device-call log
CallEntry(c, mode, value, gen, outcome) ==
    [mode |-> mode, level |-> value, magnitude |-> c.ss.test_param.magnitude,
     current_data |-> gen.square_wave,
     hi_safe |-> gen.hi_safe, lo_safe |-> gen.lo_safe,
     answer |-> c.answer, after_failure |-> c.failed,
     connected |-> c.ss.Connected,
     ok |-> ~outcome.fail]

Raise(c, name) == [c EXCEPT !.ctl = "stop", !.exc = name]

\* Establish_connection (app.py 163-181)
\* a connection that is marked as made although the constructor failed
MutEstablishConnectedOnError(c, inp) ==
    IF inp.connect_ok
    THEN [c EXCEPT !.ss.device = "open", !.ss.Connected = TRUE, !.ctl = "rerun"]
    ELSE [c EXCEPT !.ss.device = Absent, !.ss.Connected = TRUE,
                   !.connect_error = TRUE]

Establish_connection(c, inp) ==
    IF inp.connect_ok
    THEN [c EXCEPT !.ss.device = "open", !.ss.Connected = TRUE, !.ctl = "rerun"]
    ELSE [c EXCEPT !.ss.device = Absent, !.connect_error = TRUE]

\* sidebar: connect / query / disconnect (app.py 322-368)
TargetSection(c, inp) ==
    IF ~c.ss.Connected
    THEN IF inp.click = "find" THEN Establish_connection(c, inp) ELSE c
    ELSE IF c.ss.device_param = Absent
         THEN [c EXCEPT !.ss.device_param = inp.query, !.ctl = "rerun"]
         ELSE IF inp.click = "disconnect"
              THEN [c EXCEPT !.ss.device = Absent,
                             !.ss.Connected = FALSE,
                             !.ss.device_param = Absent,
                             !.ss.curr_manual_enabled = FALSE,
                             !.ctl = "rerun"]
              ELSE c

\* Manual toggle, safe stamp and param_dict (app.py 385-538)
ModeSection(c, inp) ==
    IF c.ctl # "run" THEN c
    ELSE IF c.ss.curr_manual_enabled
    THEN [c EXCEPT !.ss.safe = None,
                   !.ss.manual_mode_enable = TRUE,
                   !.param_dict = ManualParamDict(inp.w)]
    ELSE [c EXCEPT !.ss.manual_mode_enable = FALSE,
                   !.ss.safe = "True",
                   !.param_dict = AutoParamDict(inp.w)]

\* Start Test button (app.py 582-591)
StartButton(c, inp) ==
    IF c.ctl # "run" THEN c
    ELSE IF inp.click = "start"
    THEN [c EXCEPT !.ss.Measured_df = [t |-> "absent", v |-> <<>>],
                   !.ss.test_param = c.param_dict,
                   !.ss.test_initiated = TRUE,
                   !.failed = FALSE]
    ELSE c

\* an abort that shows its message and leaves the run initiated
MutStoppedKeepsInitiated(asked) ==
    [asked EXCEPT !.ss.safe = "False",
                  !.aborted = TRUE,
                  !.safe_at_abort = "False"]

\* the else branch of the override answer (app.py 611-616)
StoppedByHuman(asked) ==
    [asked EXCEPT !.ss.safe = "False",
                  !.ss.test_initiated = FALSE,
                  !.aborted = TRUE,
                  !.safe_at_abort = "False",
                  !.ctl = "rerun"]

\* safety check and override prompt (app.py 593-625)
SafetyBlock(c, inp) ==
    IF c.ctl # "run" THEN c
    ELSE IF c.ss.test_initiated /\ c.ss.safe = None
    THEN LET tp   == c.ss.test_param
             wave == WaveGen(tp.magnitude, 1)
         IN  IF tp.curr_value.t # "float"
             THEN Raise(c, "TypeError")      \* a list times self.magnitude
             ELSE
             LET checksafety == check_safety(wave, tp.curr_value.v)
                 proceed == [c EXCEPT
                               !.ss.safe = "True",
                               !.has_wave = TRUE,
                               !.gen = AppSquareWave(wave, tp, tp.curr_value.v)]
             IN  IF ~checksafety
                 THEN LET safety_override == inp.safety_override
                          asked == [c EXCEPT !.prompt = TRUE,
                                             !.answer = safety_override]
                      IN  IF safety_override # None
                          THEN IF Lower(safety_override) = "y"
                               THEN [proceed EXCEPT !.prompt = TRUE,
                                                    !.answer = safety_override]
                               ELSE StoppedByHuman(asked)
                          ELSE asked
                 ELSE proceed
    ELSE c

\* Test_Initiation (app.py 183-213)
Test_Initiation(c, inp) ==
    IF ~c.has_wave THEN Raise(c, "NameError")
    ELSE IF c.ss.device = Absent THEN Raise(c, "AttributeError")
    ELSE
    LET outcome == inp.outcomes[1]
        c1 == [c EXCEPT !.calls = Append(@, CallEntry(c, "manual",
                                   c.ss.test_param.curr_value.v, c.gen, outcome))]
    IN  IF outcome.fail            \* type(Measured_result) == str
        THEN [c1 EXCEPT !.error_shown = TRUE,
                        !.failed = TRUE,
                        !.ss.Measured_df = [t |-> "None", v |-> <<>>],
                        !.ss.test_initiated = FALSE,
                        !.ss.safe = None]
        ELSE [c1 EXCEPT !.ss.Measured_df =
                            [t |-> "df", v |-> MeasureSeries(c.gen.square_wave, outcome)],
                        !.ss.test_initiated = FALSE,
                        !.ss.safe = None]

\* temp_df of one level with its In_Range column (app.py 268-274)
TempDf(series) ==
    [j \in 1..Len(series) |->
        [Voltage  |-> series[j].Voltage,
         Current  |-> series[j].Current,
         Source   |-> series[j].Source,
         In_Range |-> is_current_in_range(series[j])]]

\* the for loop of Auto_Test_Initiation (app.py 241-277), from level index i
RECURSIVE AutoLoop(_, _, _, _)
AutoLoop(c, inp, wave, i) ==
    LET tp == c.ss.test_param IN
    IF i > Len(tp.curr_value.v) THEN c
    ELSE
    LET value == tp.curr_value.v[i]
        gen   == AppSquareWave(wave, tp, value)
    IN  IF c.ss.device = Absent THEN Raise(c, "AttributeError")
        ELSE
        LET outcome == inp.outcomes[i]
            c1 == [c EXCEPT !.calls = Append(@, CallEntry(c, "auto", value, gen, outcome))]
        IN  IF outcome.fail        \* type(Auto_Measured_result) == str
            THEN \* status "Test failed!", then the f-string of st.error reads
                 \* st.session_state.device.Auto_Measured_result: no such attribute
                 Raise([c1 EXCEPT !.status_failed = TRUE, !.failed = TRUE],
                       "AttributeError")
            ELSE
            LET temp_df == TempDf(MeasureSeries(gen.square_wave, outcome))
            IN  AutoLoop([c1 EXCEPT !.ss.Measured_df.v = Append(@, temp_df),
                                    !.ss.test_initiated = FALSE],
                         inp, wave, i + 1)

\* Auto_Test_Initiation (app.py 235-277)
Auto_Test_Initiation(c, inp) ==
    LET c1   == [c EXCEPT !.ss.Measured_df = [t |-> "df", v |-> <<>>]]
        wave == WaveGen(c.ss.test_param.magnitude, 1)
    IN  IF c.ss.test_param.curr_value.t # "list"
        THEN Raise(c1, "TypeError")          \* len() of a float
        ELSE AutoLoop(c1, inp, wave, 1)

\* the session writes of the manual-mode computation, then st.rerun()
\* (app.py 640-675)
StoreManual(c, r) ==
    [c EXCEPT !.ss.Measured_df.v = r.Measured_df,
              !.ss.test_invalid = r.test_invalid,
              !.ss.test_param = r.test_param,
              !.ss.auto_result = r.auto_result,
              !.ctl = "rerun"]

\* manual mode after Test_Initiation returned (app.py 635-675)
ManualFinish(c, inp) ==
    IF c.ctl = "run" /\ c.ss.Measured_df.t = "df"
    THEN StoreManual(c, ManualProcess(c.ss.test_param, c.ss.Measured_df.v,
                                      inp.w.curr_adv, inp.w.sample_shape,
                                      c.ss.auto_result))
    ELSE c

\* the session writes of the auto-mode computation (app.py 694-721)
StoreAuto(c, r) ==
    [c EXCEPT !.ss.test_invalid = r.test_invalid,
              !.ss.test_param = r.test_param,
              !.ss.auto_result = r.auto_result]

\* auto mode after Auto_Test_Initiation returned (app.py 681-721)
AutoFinish(c, inp) ==
    IF c.ctl = "run" /\ c.ss.Measured_df.t = "df"
    THEN StoreAuto(c, AutoProcess(c.ss.test_param, c.ss.Measured_df.v,
                                  inp.w.sample_shape))
    ELSE c

\* test dispatch and result computation (app.py 629-721)
Dispatch(c, inp) ==
    IF c.ctl # "run" THEN c
    ELSE IF c.ss.test_initiated /\ c.ss.safe = "True"
    THEN IF c.ss.manual_mode_enable
         THEN ManualFinish(Test_Initiation(c, inp), inp)
         ELSE AutoFinish(Auto_Test_Initiation(c, inp), inp)
    ELSE c

\* one run of the script: up to the safety block, then the dispatch; a
\* section is skipped once st.rerun() or an exception has ended the run
Prelude(c, inp) ==
    SafetyBlock(StartButton(ModeSection(TargetSection(c, inp), inp), inp), inp)

Script(c, inp) == Dispatch(Prelude(c, inp), inp)

\* the script, and again after every st.rerun() (no button is pressed then)
RECURSIVE RunChain(_, _)

Rerun(r, inp) ==
    IF r.ctl = "rerun"
    THEN RunChain([r EXCEPT !.ctl = "run", !.has_wave = FALSE],
                  [inp EXCEPT !.click = "none"])
    ELSE r

RunChain(c, inp) == Rerun(Script(c, inp), inp)

-----------------------------------------------------------------------------
(* The session, the operator's inputs and the instrument's answers *)

\* st.session_state after the page is first loaded (auto mode, no device)
InitSession ==
    [Connected |-> FALSE, device |-> Absent, device_param |-> Absent,
     curr_manual_enabled |-> FALSE, manual_mode_enable |-> FALSE,
     safe |-> "True", test_initiated |-> FALSE, test_invalid |-> None,
     test_param |-> EmptyParam,
     Measured_df |-> [t |-> "absent", v |-> <<>>],
     auto_result |-> Absent]

NoGen == [square_wave |-> <<>>, hi_safe |-> TRUE, lo_safe |-> TRUE]

\* the run context at the start of a UI event
NewContext(ss, failed) ==
    [ss |-> ss, ctl |-> "run", exc |-> None, param_dict |-> EmptyParam,
     has_wave |-> FALSE, gen |-> NoGen, calls |-> <<>>,
     prompt |-> FALSE, answer |-> None, aborted |-> FALSE, safe_at_abort |-> None,
     error_shown |-> FALSE, status_failed |-> FALSE, connect_error |-> FALSE,
     failed |-> failed]

\* what an event displayed and did, as recorded in the variable shown
Observed(r, click) ==
    [click |-> click, calls |-> r.calls, prompt |-> r.prompt, answer |-> r.answer,
     aborted |-> r.aborted, safe_at_abort |-> r.safe_at_abort,
     error_shown |-> r.error_shown, status_failed |-> r.status_failed,
     connect_error |-> r.connect_error, exc |-> r.exc]

NoCall == [fn |-> "none"]

\* widget values: manual-mode currents (value, unit exponent) around the
\* 1 A threshold, the advanced settings, the auto-mode surface choice
ManualCurrents ==
    {[curr_value |-> 999,   magnitude |-> -3],
     [curr_value |-> 1,     magnitude |-> 0],
     [curr_value |-> -1000, magnitude |-> -3]}

AdvancedSettings ==
    {[curr_adv |-> FALSE, period |-> 100, duty_cycle |-> [num |-> 1, den |-> 2],
      initial_zero |-> 0, repeats |-> 1],
     [curr_adv |-> TRUE, period |-> 4, duty_cycle |-> [num |-> 1, den |-> 2],
      initial_zero |-> 1, repeats |-> 2]}

Widgets(cv, adv, surf) ==
    [curr_value |-> cv.curr_value, magnitude |-> cv.magnitude,
     curr_adv |-> adv.curr_adv, period |-> adv.period,
     duty_cycle |-> adv.duty_cycle, initial_zero |-> adv.initial_zero,
     repeats |-> adv.repeats, surf |-> surf,
     est_thickness |-> NoneValue, sample_shape |-> "Circular"]

DefaultCurrent == [curr_value |-> 0, magnitude |-> -6]
DefaultAdvanced == CHOOSE adv \in AdvancedSettings : ~adv.curr_adv

\* the widget values that a run of the script reads
WidgetInputs(manual, start) ==
    IF manual
    THEN {Widgets(cv, adv, "Unknown") :
             cv \in (IF start THEN ManualCurrents ELSE {DefaultCurrent}),
             adv \in AdvancedSettings}
    ELSE {Widgets(DefaultCurrent, DefaultAdvanced, surf) :
             surf \in (IF start THEN {"Semiconductor", "Metal", "Unknown"}
                       ELSE {"Unknown"})}

Overrides == {None, "y", "Y", "n"}

\* instrument answers to the Measure_List calls of one event, by call index
MaxLevels == 7
Good == [fail |-> FALSE, open |-> 0, r |-> 2, offset |-> 0]
Plan(first, second) == [i \in 1..MaxLevels |->
                           IF i = 1 THEN first ELSE IF i = 2 THEN second ELSE Good]
OutcomePlans ==
    {Plan(Good, Good),
     Plan([Good EXCEPT !.fail = TRUE], Good),
     Plan(Good, [Good EXCEPT !.fail = TRUE]),
     Plan([Good EXCEPT !.open = 50, !.offset = 3], [Good EXCEPT !.open = 20])}

\* manual mode makes one call: only the first answer is read
FirstAnswerPlans == {Plan(p[1], Good) : p \in OutcomePlans}

Input(click, w, o, p, ok, q) ==
    [click |-> click, w |-> w, safety_override |-> o, outcomes |-> p,
     connect_ok |-> ok, query |-> q]

\* The inputs of one event on session ss.  An input the run does not read is
\* not varied: the override answer is read only when the prompt is shown
\* (app.py 601), the instrument answers only when the run, or a rerun after
\* it, reaches the dispatch.
PlansRead(c4) ==
    IF c4.ctl = "rerun"
    THEN OutcomePlans
    ELSE IF c4.ctl = "run" /\ c4.ss.test_initiated /\ c4.ss.safe = "True"
    THEN (IF c4.ss.manual_mode_enable THEN FirstAnswerPlans ELSE OutcomePlans)
    ELSE {Plan(Good, Good)}

Inputs(ss, click) ==
    LET manual == ss.curr_manual_enabled
        pre(w, o, ok, q) ==
            Prelude(NewContext(ss, FALSE), Input(click, w, o, Plan(Good, Good), ok, q))
        answers(w, ok, q) ==
            IF pre(w, None, ok, q).prompt THEN Overrides ELSE {None}
        plans(w, o, ok, q) == PlansRead(pre(w, o, ok, q))
    IN  UNION {UNION {{Input(click, x[1], o, p, x[2], x[3]) :
                          p \in plans(x[1], o, x[2], x[3])} :
                      o \in answers(x[1], x[2], x[3])} :
               x \in WidgetInputs(manual, click = "start")
                       \X (IF click = "find" THEN BOOLEAN ELSE {TRUE})
                       \X (IF click = "find" THEN {"normal", "error"} ELSE {"normal"})}

-----------------------------------------------------------------------------
(* UI events *)

Init ==
    /\ session_state = InitSession
    /\ shown = Observed(NewContext(InitSession, FALSE), "none")
    /\ run_failed = FALSE
    /\ call = NoCall
    /\ ret = NoCall

\* what the event leaves behind
Outcome(r, click) ==
    /\ session_state' = r.ss
    /\ shown' = Observed(r, click)
    /\ run_failed' = r.failed
    /\ UNCHANGED <<call, ret>>

Event(ss, inp) == Outcome(RunChain(NewContext(ss, run_failed), inp), inp.click)

\* "Find Target Device" (rendered while not connected)
FindTargetDevice ==
    /\ ~session_state.Connected
    /\ \E inp \in Inputs(session_state, "find") :
          Event(session_state, inp)

\* "Disconnect" (rendered while connected)
Disconnect ==
    /\ session_state.Connected
    /\ session_state.device_param # Absent
    /\ \E inp \in Inputs(session_state, "disconnect") :
          Event(session_state, inp)

\* the "Manual" toggle (enabled while connected)
ToggleManual ==
    /\ session_state.Connected
    /\ LET toggled == [session_state EXCEPT !.curr_manual_enabled = ~@]
       IN  \E inp \in Inputs(toggled, "none") : Event(toggled, inp)

\* "Start Test" (enabled while connected)
StartTest ==
    /\ session_state.Connected
    /\ \E inp \in Inputs(session_state, "start") :
          Event(session_state, inp)

\* any other interaction that reruns the script: typing the override
\* answer, changing a parameter widget
Interact ==
    \E inp \in Inputs(session_state, "none") :
        Event(session_state, inp)

Next ==
    \/ FindTargetDevice
    \/ Disconnect
    \/ ToggleManual
    \/ StartTest
    \/ Interact

Spec == Init /\ [][Next]_vars

-----------------------------------------------------------------------------
(* Properties of the UI state machine *)

Affirmative == {"y", "Y"}

\* a requested level fails the safety check: |value * 10^exponent| >= 1 A
UnsafeLevel(e) == Abs(e.level) * Pow10(e.magnitude + 6) >= Pow10(6)

CallsOfEvent == {shown.calls[k] : k \in 1..Len(shown.calls)}

\* C1: over every sequence of UI events, a Measure_List call whose requested
\* level fails the safety check is made only after the operator answered the
\* override prompt with 'y' or 'Y'; while the prompt is unanswered no call is
\* made and the run stays initiated and unconfirmed (blocked).
C1_UnsafeNeedsOverride ==
    /\ \A e \in CallsOfEvent : UnsafeLevel(e) => e.answer \in Affirmative
    /\ (shown.prompt /\ shown.answer = None) =>
          /\ shown.calls = <<>>
          /\ session_state.test_initiated
          /\ session_state.safe = None

C1_Witness ==
    \E e \in CallsOfEvent : UnsafeLevel(e) /\ e.answer = "Y" /\ e.ok

C3_NoCallAfterFailure ==
    \A e \in CallsOfEvent : ~e.after_failure

-----------------------------------------------------------------------------
(* Unit specifications: one call of a function on inputs drawn from bounded *)
(* sets; the UI variables rest at their initial values.                     *)

UIAtRest ==
    /\ session_state = InitSession
    /\ shown = Observed(NewContext(InitSession, FALSE), "none")
    /\ run_failed = FALSE

Return(value) ==
    /\ ret = NoCall
    /\ ret' = value
    /\ UNCHANGED <<session_state, shown, run_failed, call>>

Exponents == {0, -3, -6}
MaxThreshold == 2
MaxDelta == 3

\* values around the point where |value * 10^exponent| meets the threshold
SafetyCalls ==
    {[fn |-> "_check_safety", magnitude |-> e, threshold |-> t,
      value |-> sg * (t * Pow10(-e) + d)] :
        e \in Exponents, t \in 1..MaxThreshold,
        d \in (-MaxDelta)..MaxDelta, sg \in {-1, 1}}

SafetyInit == UIAtRest /\ call \in SafetyCalls /\ ret = NoCall

CheckSafety ==
    /\ call.fn = "_check_safety"
    /\ Return([v |-> check_safety(WaveGen(call.magnitude, call.threshold), call.value)])

SafetyNext == CheckSafety

SafetySpec == SafetyInit /\ [][SafetyNext]_vars

-----------------------------------------------------------------------------

MaxLen == 8
MaxPeriod == 4
MaxInit == 2
MaxRepeats == 2
DutyCycles == {[num |-> 0, den |-> 1], [num |-> 1, den |-> 4], [num |-> 1, den |-> 2],
               [num |-> 7, den |-> 10], [num |-> 1, den |-> 1]}

\* direct calls of generate_square_wave, and the call of the worked example
WaveCalls ==
    {[fn |-> "generate_square_wave", magnitude |-> -6, length |-> n,
      high_value |-> 50, low_value |-> -50, period |-> p, duty_cycle |-> dc,
      init_time |-> t] :
        n \in 0..MaxLen, p \in 1..MaxPeriod, dc \in DutyCycles, t \in 0..MaxInit}
    \cup
    {[fn |-> "generate_square_wave", magnitude |-> -6, length |-> 100,
      high_value |-> 50, low_value |-> -50, period |-> 100,
      duty_cycle |-> [num |-> 1, den |-> 2], init_time |-> 0]}

\* the waveform of a test run, from the run's parameters
RunWaveCalls ==
    {[fn |-> "test_run_wave", magnitude |-> -6, value |-> 50, period |-> p,
      duty_cycle |-> dc, initial_zero |-> t, repeats |-> r] :
        p \in 1..MaxPeriod, dc \in DutyCycles, t \in 0..MaxInit, r \in 1..MaxRepeats}

WaveInit ==
    /\ UIAtRest
    /\ ret = NoCall
    /\ (call \in WaveCalls \/ call \in RunWaveCalls)

GenerateSquareWave ==
    /\ call.fn = "generate_square_wave"
    /\ Return(generate_square_wave(WaveGen(call.magnitude, 1), call.length,
                                   call.high_value, call.low_value, call.period,
                                   call.duty_cycle, call.init_time))

TestRunWave ==
    /\ call.fn = "test_run_wave"
    /\ Return(AppSquareWave(WaveGen(call.magnitude, 1),
                            [EmptyParam EXCEPT !.period = call.period,
                                               !.duty_cycle = call.duty_cycle,
                                               !.initial_zero = call.initial_zero,
                                               !.repeats = call.repeats],
                            call.value))

WaveNext == GenerateSquareWave \/ TestRunWave

WaveSpec == WaveInit /\ [][WaveNext]_vars

\* C6 as stated: the forcing sequence generated for a test run has length
\* period * repeats + initial_zero.
C6_LengthIncludesInitialZero ==
    (ret # NoCall /\ call.fn = "test_run_wave") =>
        Len(ret.square_wave) = call.period * call.repeats + call.initial_zero

\* C7: the array has the requested length; it is zero before init_time, and
\* from init_time on every period holds floor(period * duty_cycle) samples
\* of the scaled high value and then period - floor(period * duty_cycle)
\* samples of the scaled low value, cut at the end of the array without
\* wrapping; period 100, duty 0.5, level 50 at exponent -6 gives 50 samples
\* of +50e-6 A and then 50 of -50e-6 A.
C7_SquareWaveShape ==
    (ret # NoCall /\ call.fn = "generate_square_wave") =>
        LET floorHigh == (call.period * call.duty_cycle.num) \div call.duty_cycle.den
            scale     == Pow10(call.magnitude + 6)
        IN  /\ Len(ret.square_wave) = call.length
            /\ \A j \in 0..(call.length - 1) :
                  ret.square_wave[j + 1] =
                      IF j < call.init_time THEN 0
                      ELSE IF (j - call.init_time) % call.period < floorHigh
                           THEN call.high_value * scale
                           ELSE call.low_value * scale
            /\ (call.length = 100 /\ call.period = 100) =>
                  ret.square_wave = [j \in 1..100 |-> IF j <= 50 THEN 50 ELSE -50]

C7_Witness ==
    /\ ret # NoCall /\ call.fn = "generate_square_wave"
    /\ call.period = 100 /\ call.length = 100
    /\ ret.square_wave[50] = 50 /\ ret.square_wave[51] = -50

-----------------------------------------------------------------------------

MaxCurrent == 20

RangeCalls ==
    {[fn |-> "is_current_in_range", Source |-> src, Current |-> cur] :
        src \in (-MaxCurrent)..MaxCurrent, cur \in (-MaxCurrent)..MaxCurrent}

RangeInit == UIAtRest /\ call \in RangeCalls /\ ret = NoCall

IsCurrentInRange ==
    /\ call.fn = "is_current_in_range"
    /\ Return([v |-> is_current_in_range(call)])

RangeNext == IsCurrentInRange

RangeSpec == RangeInit /\ [][RangeNext]_vars

\* C8: is_current_in_range is true exactly when 0.7|source| <= |current| <=
\* 1.3|source|, both bounds included; for source 0 only current 0 is in range.
C8_InRangeIff ==
    ret # NoCall =>
        /\ ret.v = (/\ 7 * Abs(call.Source) <= 10 * Abs(call.Current)
                    /\ 10 * Abs(call.Current) <= 13 * Abs(call.Source))
        /\ call.Source = 0 => (ret.v <=> call.Current = 0)

C8_Witness ==
    /\ ret # NoCall
    /\ call.Source = -10 /\ call.Current = 13
    /\ ret.v = TRUE

-----------------------------------------------------------------------------

MaxOpen == 2
PipePeriods == {2, 4, 5}
PipeDuties == {[num |-> 1, den |-> 4], [num |-> 1, den |-> 2]}
PipeLevel == [curr_value |-> 50, magnitude |-> -6]

\* a series as the instrument returns it for the waveform of test_param
SeriesFor(test_param, value, outcome) ==
    MeasureSeries(AppSquareWave(WaveGen(test_param.magnitude, 1), test_param,
                                value).square_wave,
                  outcome)

ManualPipeCall(adv, outcome) ==
    LET test_param == ManualParamDict(Widgets(PipeLevel, adv, "Unknown"))
    IN  [fn |-> "manual", test_param |-> test_param, curr_adv |-> adv.curr_adv,
         sample_shape |-> "Circular",
         Measured_df |-> SeriesFor(test_param, PipeLevel.curr_value, outcome)]

\* manual mode: small advanced settings, and the default settings (period
\* 100) with the answer of a 200 Ohm sample
ManualPipeCalls ==
    {ManualPipeCall([curr_adv |-> TRUE, period |-> p, duty_cycle |-> dc,
                     initial_zero |-> t, repeats |-> r],
                    [Good EXCEPT !.open = o, !.offset = off]) :
        p \in PipePeriods, dc \in PipeDuties, t \in 0..(MaxInit - 1),
        r \in 1..MaxRepeats, o \in 0..MaxOpen, off \in {0, 3}}
    \cup
    {ManualPipeCall(DefaultAdvanced, [Good EXCEPT !.open = o, !.r = 200]) :
        o \in {0, 19, 20}}

\* auto mode: every level list, the first two levels answered with open
\* samples around the aggregate 20 % of 300 and of 350 samples
AutoPipeCalls ==
    {LET test_param == AutoParamDict(Widgets(DefaultCurrent, DefaultAdvanced, surf))
         levels == test_param.curr_value.v
     IN  [fn |-> "auto", test_param |-> test_param, curr_adv |-> FALSE,
          sample_shape |-> "Circular",
          Measured_df |-> [i \in 1..Len(levels) |->
                              SeriesFor(test_param, levels[i],
                                        Plan([Good EXCEPT !.open = a],
                                             [Good EXCEPT !.open = b])[i])]] :
        surf \in {"Semiconductor", "Metal", "Unknown"},
        a \in {0, 50}, b \in {0, 9, 10, 19, 20}}

\* auto mode on a sample whose resistance differs from level to level, of
\* either shape, its thickness (in micrometres) given or left blank
SpreadOffsets == {0, 3, 8, 13, 100}
SampleShapes == {"Square", "Circular"}
Thicknesses == {NoneValue, [t |-> "float", v |-> 500]}

AutoSpreadCalls ==
    {LET widgets == Widgets(DefaultCurrent, DefaultAdvanced, "Unknown")
         test_param == [AutoParamDict(widgets) EXCEPT !.est_thickness = q[2]]
         levels == test_param.curr_value.v
         rs == <<200 + x, 200 + y, 195, 200, 205, 208, 200 + z>>
     IN  [fn |-> "auto", test_param |-> test_param, curr_adv |-> FALSE,
          sample_shape |-> q[1],
          Measured_df |-> [i \in 1..Len(levels) |->
                              SeriesFor(test_param, levels[i],
                                        [Good EXCEPT !.r = rs[i]])]] :
        x \in SpreadOffsets, y \in SpreadOffsets, z \in SpreadOffsets,
        q \in SampleShapes \X Thicknesses}

PipeInit ==
    /\ UIAtRest
    /\ ret = NoCall
    /\ (call \in ManualPipeCalls \/ call \in AutoPipeCalls \/ call \in AutoSpreadCalls)

ManualCompute ==
    /\ call.fn = "manual"
    /\ Return(ManualProcess(call.test_param, call.Measured_df, call.curr_adv,
                            call.sample_shape, Absent))

AutoCompute ==
    /\ call.fn = "auto"
    /\ Return(AutoProcess(call.test_param,
                          [i \in 1..Len(call.Measured_df) |-> TempDf(call.Measured_df[i])],
                          call.sample_shape))

PipeNext == ManualCompute \/ AutoCompute

PipeSpec == PipeInit /\ [][PipeNext]_vars

\* a sample is out of range: not 0.7|source| <= |current| <= 1.3|source|
OutOfRange(row) ==
    ~(/\ 7 * Abs(row.Source) <= 10 * Abs(row.Current)
      /\ 10 * Abs(row.Current) <= 13 * Abs(row.Source))

\* the series of a call: the one of manual mode, the per-level ones of auto mode
SeriesOf(c) == IF c.fn = "manual" THEN <<c.Measured_df>> ELSE c.Measured_df

OutOfRangeSamples(c) ==
    {q \in (1..Len(SeriesOf(c))) \X (1..Len(SeriesOf(c)[1])) :
        OutOfRange(SeriesOf(c)[q[1]][q[2]])}

TotalSamples(c) == Len(SeriesOf(c)) * Len(SeriesOf(c)[1])

ExpectedVolt(test_param, series) ==
    LET Voltage   == Column(series, "Voltage")
        highEnd   == test_param.initial_zero
                       + (test_param.period * test_param.duty_cycle.num)
                            \div test_param.duty_cycle.den
        windowEnd == test_param.initial_zero + test_param.period
        hi == Slice(Voltage, test_param.initial_zero, highEnd)
        lo == Slice(Voltage, highEnd, windowEnd)
    IN  IF hi = <<>> \/ lo = <<>> THEN NaN
        ELSE Frac(SumSeq(hi) * Len(lo) - SumSeq(lo) * Len(hi), 2 * Len(hi) * Len(lo))

ExpectedCurr(series) == Frac(SumSeq(AbsColumn(series, "Current")), Len(series))

ExpectedRatio(test_param, series) ==
    LET v == ExpectedVolt(test_param, series)
        a == ExpectedCurr(series)
    IN  Frac(v.n * a.d, v.d * a.n)

\* C10: the corrected voltage is (mean(voltage[initial_zero:highEnd]) -
\* mean(voltage[highEnd:windowEnd])) / 2, the average current the mean of
\* |current| over the series, the ratio their quotient (per level in auto
\* mode); +0.01 V then -0.01 V at |I| = 5e-5 A gives 0.01 V, 5e-5 A and 200.
C10_ReversalAverage ==
    ret # NoCall =>
        /\ call.fn = "manual" =>
              /\ ret.test_param.Volt_corrected
                    = ExpectedVolt(call.test_param, call.Measured_df)
              /\ ret.test_param.Avg_curr = ExpectedCurr(call.Measured_df)
              /\ (ExpectedCurr(call.Measured_df).n > 0
                  /\ IsFinite(ExpectedVolt(call.test_param, call.Measured_df))) =>
                    ret.test_param.Cal_VI
                        = ExpectedRatio(call.test_param, call.Measured_df)
              /\ (\A j \in 1..Len(call.Measured_df) :
                     /\ Abs(call.Measured_df[j].Current) = 50
                     /\ call.Measured_df[j].Voltage
                           = (IF j <= 50 THEN 10000 ELSE -10000)) =>
                    /\ ret.test_param.Volt_corrected = Frac(10000, 1)
                    /\ ret.test_param.Avg_curr = Frac(50, 1)
                    /\ ret.test_param.Cal_VI = Frac(200, 1)
        /\ call.fn = "auto" =>
              \A i \in 1..Len(call.Measured_df) :
                  (ExpectedCurr(call.Measured_df[i]).n > 0
                   /\ IsFinite(ExpectedVolt(call.test_param, call.Measured_df[i]))) =>
                      ret.test_param.Cal_VI[i]
                          = ExpectedRatio(call.test_param, call.Measured_df[i])

C10_Witness ==
    /\ ret # NoCall /\ call.fn = "manual"
    /\ Len(call.Measured_df) = 100
    /\ \A j \in 1..100 : /\ Abs(call.Measured_df[j].Current) = 50
                         /\ call.Measured_df[j].Voltage
                               = (IF j <= 50 THEN 10000 ELSE -10000)
    /\ ret.test_param.Cal_VI = Frac(200, 1)

-----------------------------------------------------------------------------
(* The ratio of a series without current (app.py 654-655, 692-694).        *)

\* the series of a call whose average |current| is 0
ZeroCurrentSeries(c) ==
    {i \in 1..Len(SeriesOf(c)) : ExpectedCurr(SeriesOf(c)[i]).n = 0}

\* C11: a series whose average |current| is 0 yields no ratio: the
\* computation fails, and no Cal_V/I value (infinite, NaN or any other) is
\* carried into the result.
C11_ZeroCurrentNoRatio ==
    (ret # NoCall /\ ZeroCurrentSeries(call) # {}) =>
        "Cal_V/I" \notin ret.test_param.keys

-----------------------------------------------------------------------------
(* remove_outliers_amd on its own (app.py 53-69): lists of whole-number    *)
(* ratios, in the order given.                                             *)

MaxData == 4
MaxValue == 8

\* a call on data with the given threshold
FilterCall(data, threshold) ==
    [fn |-> "remove_outliers_amd", data |-> data, threshold |-> threshold]

\* the lists of up to MaxData small values, the shorter ones also with a far
\* value at the end and with a threshold of 1, and the two lists
\* [1, 1, 1, 1, 100] and [2, 2, 2, 2]
FilterInit ==
    /\ UIAtRest
    /\ ret = NoCall
    /\ \/ \E k \in 1..MaxData : \E f \in [1..k -> 0..MaxValue] :
              call = FilterCall(f, DefaultThreshold)
       \/ \E k \in 0..(MaxData - 1) : \E f \in [1..k -> 0..MaxValue] :
              \/ call = FilterCall(Append(f, 100), DefaultThreshold)
              \/ call = FilterCall(Append(f, 100), [num |-> 1, den |-> 1])
              \/ k > 0 /\ call = FilterCall(f, [num |-> 1, den |-> 1])
       \/ call = FilterCall(<<1, 1, 1, 1, 100>>, DefaultThreshold)
       \/ call = FilterCall(<<2, 2, 2, 2>>, DefaultThreshold)

RemoveOutliers ==
    /\ call.fn = "remove_outliers_amd"
    /\ Return([data |-> remove_outliers_amd(
                            [j \in 1..Len(call.data) |-> Frac(call.data[j], 1)],
                            call.threshold)])

FilterNext == RemoveOutliers

FilterSpec == FilterInit /\ [][FilterNext]_vars

\* the k-th smallest element of a list of integers, by counting
KthSmallest(s, k) ==
    CHOOSE e \in {s[j] : j \in 1..Len(s)} :
        /\ Cardinality({j \in 1..Len(s) : s[j] < e}) < k
        /\ k <= Cardinality({j \in 1..Len(s) : s[j] <= e})

\* twice the median of a list of integers
TwiceMedian(s) ==
    IF Len(s) % 2 = 1 THEN 2 * KthSmallest(s, (Len(s) + 1) \div 2)
    ELSE KthSmallest(s, Len(s) \div 2) + KthSmallest(s, Len(s) \div 2 + 1)

\* twice |x - median|, for every element of the list
TwiceDeviations(s) == [j \in 1..Len(s) |-> Abs(2 * s[j] - TwiceMedian(s))]

\* four times the median absolute deviation
FourMad(s) == TwiceMedian(TwiceDeviations(s))

\* |x - median| <= threshold * mad, in whole numbers
WithinLimit(s, threshold, x) ==
    2 * threshold.den * Abs(2 * x - TwiceMedian(s)) <= threshold.num * FourMad(s)

IntList(fracs) == [j \in 1..Len(fracs) |-> fracs[j].n]

\* C12: remove_outliers_amd keeps exactly the values x with |x - median| <=
\* threshold * mad (threshold 1.6 by default), in their order; [1, 1, 1, 1,
\* 100] loses the 100 and [2, 2, 2, 2] keeps every value.
C12_KeepsWithinLimit ==
    ret # NoCall =>
        /\ \A j \in 1..Len(ret.data) : ret.data[j].d = 1
        /\ LET Kept(x) == WithinLimit(call.data, call.threshold, x)
           IN  IntList(ret.data) = SelectSeq(call.data, Kept)
        /\ (call.data = <<1, 1, 1, 1, 100>> /\ call.threshold = DefaultThreshold) =>
              IntList(ret.data) = <<1, 1, 1, 1>>
        /\ (call.data = <<2, 2, 2, 2>> /\ call.threshold = DefaultThreshold) =>
              IntList(ret.data) = <<2, 2, 2, 2>>

\* a value exactly on the limit is kept, one beyond it is dropped
C12_Witness ==
    /\ ret # NoCall
    /\ call.data = <<0, 3, 5, 8>> /\ call.threshold = DefaultThreshold
    /\ IntList(ret.data) = <<0, 3, 5, 8>>

\* C13 as stated: with mad = 0 every input value passes
C13_ZeroMadKeepsAll ==
    (ret # NoCall /\ FourMad(call.data) = 0) =>
        IntList(ret.data) = call.data

\* C13: with mad = 0 the limit is 0: the filter keeps exactly the values
\* equal to the median, so the output is the input only when no value
\* differs from the median.
C13_ZeroMadKeepsMedianOnly ==
    (ret # NoCall /\ FourMad(call.data) = 0) =>
        /\ LET AtMedian(x) == 2 * x = TwiceMedian(call.data)
           IN  IntList(ret.data) = SelectSeq(call.data, AtMedian)
        /\ (IntList(ret.data) = call.data) <=>
              (\A j \in 1..Len(call.data) : 2 * call.data[j] = TwiceMedian(call.data))

C13_Witness ==
    /\ ret # NoCall
    /\ call.data = <<1, 1, 1, 1, 100>> /\ FourMad(call.data) = 0
    /\ IntList(ret.data) = <<1, 1, 1, 1>>

-----------------------------------------------------------------------------
(* The corrected sheet resistance (app.py 655-673, 692-713).               *)

\* the factors as the result records them
FactorOne == [fn |-> "1", shape |-> "-"]
ThicknessFactor == [fn |-> "thickness_correction", shape |-> "-"]
LateralFactor(shape) ==
    [fn |-> IF shape = "Square" THEN "square_lateral_correction"
            ELSE "circle_lateral_correction",
     shape |-> shape]

\* C14: in multi-level mode there is exactly one ratio per level, in level
\* order, each from the series of its own level; the list of ratios goes
\* through the median-deviation filter (none survives a list that holds a
\* NaN); the survivors are averaged; the corrected sheet resistance is that
\* average times pi/ln 2, thicknessComp and lateralComp.
C14_MultiLevelResult ==
    (ret # NoCall /\ call.fn = "auto") =>
        LET levels == call.test_param.curr_value.v
            tp     == ret.test_param
            ratios == IntList(tp.Cal_VI)
            Kept(x) == WithinLimit(ratios, DefaultThreshold, x)
            kept   == SelectSeq(ratios, Kept)
        IN  /\ Len(tp.Cal_VI) = Len(levels)
            /\ \A i \in 1..Len(levels) :
                  IF ExpectedCurr(call.Measured_df[i]).n > 0
                  THEN tp.Cal_VI[i] = ExpectedRatio(call.test_param, call.Measured_df[i])
                  ELSE ~IsFinite(tp.Cal_VI[i])
            /\ IF \A i \in 1..Len(levels) : tp.Cal_VI[i].d = 1
               THEN /\ IntList(tp.Cal_VI_filtered) = kept
                    /\ \A j \in 1..Len(kept) : tp.Cal_VI_filtered[j].d = 1
                    /\ kept # <<>>
                    /\ tp.Avg_VI_filtered = Frac(SumSeq(kept), Len(kept))
               ELSE /\ \E i \in 1..Len(levels) : IsNaN(tp.Cal_VI[i])
                    /\ tp.Cal_VI_filtered = <<>>
                    /\ IsNaN(tp.Avg_VI_filtered)
            /\ tp.thicknessComp = (IF call.test_param.est_thickness = NoneValue
                                   THEN FactorOne ELSE ThicknessFactor)
            /\ tp.lateralComp = LateralFactor(call.sample_shape)
            /\ tp.Corr_Rsheet = [VI |-> tp.Avg_VI_filtered,
                                 thicknessComp |-> tp.thicknessComp,
                                 lateralComp |-> tp.lateralComp]
            /\ "Corr_Rsheet" \in tp.keys

\* seven different ratios, of which the filter drops some, and an average
\* that is not one of the ratios
C14_Witness ==
    /\ ret # NoCall /\ call.fn = "auto"
    /\ IntList(ret.test_param.Cal_VI) = <<203, 213, 195, 200, 205, 208, 300>>
    /\ Len(ret.test_param.Cal_VI_filtered) \in 2..6
    /\ \A i \in 1..7 : ret.test_param.Avg_VI_filtered # ret.test_param.Cal_VI[i]
    /\ IsFinite(ret.test_param.Avg_VI_filtered)
    /\ call.sample_shape = "Square" /\ call.test_param.est_thickness # NoneValue

\* C15: in single-level mode every successful run leaves a corrected sheet
\* resistance for the result output: the ratio times pi/ln 2, thicknessComp
\* and lateralComp, whatever the admissible period, duty cycle, initial
\* zeros and repeats, Advanced Settings included.
C15_SingleLevelCorrected ==
    (ret # NoCall /\ call.fn = "manual") =>
        /\ "Corr_Rsheet" \in ret.test_param.keys
        /\ ret.test_param.Corr_Rsheet
              = [VI |-> ret.test_param.Cal_VI,
                 thicknessComp |-> (IF call.test_param.est_thickness = NoneValue
                                    THEN FactorOne ELSE ThicknessFactor),
                 lateralComp |-> LateralFactor(call.sample_shape)]

-----------------------------------------------------------------------------
(* The correction functions on their own (app.py 71-151).  Lengths are     *)
(* whole numbers of one unit.  A float result is kept as what the          *)
(* arithmetic decides about it: nan, a positive finite number, or a number *)
(* whose sign the inputs do not decide.                                    *)

FloatNaN == [kind |-> "nan"]
FloatPositive == [kind |-> "positive"]
FloatNumber == [kind |-> "number"]

\* how a call ends: with a value, or with the exception it raises
Returned(value) == [exc |-> None, value |-> value]
Raised(exc) == [exc |-> exc, value |-> [kind |-> "none"]]

\* np.log of a fraction: nan below 0 (a RuntimeWarning, no exception),
\* -inf at 0, else a number with the sign of x - 1
NpLog(x) ==
    IF IsNaN(x) \/ (x.d > 0 /\ x.n < 0) \/ (x.d = 0 /\ x.n < 0)
    THEN [kind |-> "nan", sign |-> 0]
    ELSE IF x.d = 0 THEN [kind |-> "inf", sign |-> 1]
    ELSE IF x.n = 0 THEN [kind |-> "inf", sign |-> -1]
    ELSE [kind |-> "finite", sign |-> Sign(x.n - x.d)]

\* thickness_correction(thickness, Probe_spacing), app.py 71-89
thickness_correction(thickness, Probe_spacing) ==
    LET t == thickness
        s == Probe_spacing
    IN  IF s = 0 THEN Raised("ZeroDivisionError")      \* t / s on Python floats
        ELSE LET \* the signs of np.sinh(t / s) and np.sinh(t / (2 * s))
                 sinh_t_over_s  == Sign(t) * Sign(s)
                 sinh_t_over_2s == Sign(t) * Sign(2 * s)
             IN  IF sinh_t_over_2s = 0
                 \* 0.0 / 0.0 on numpy floats is nan; log and / keep it
                 THEN Returned(FloatNaN)
                 \* the quotient is 2 cosh(t / 2s) >= 2, its log >= ln 2
                 ELSE Returned(FloatPositive)

\* circle_lateral_correction(diameter, Probe_spacing), app.py 91-110
circle_lateral_correction(diameter, Probe_spacing) ==
    LET d == diameter
        s == Probe_spacing
    IN  IF s = 0 THEN Raised("ZeroDivisionError")      \* d / s on Python floats
        ELSE LET d_over_s_squared == Frac(d * d, s * s)
                 numerator   == FracAdd(d_over_s_squared, Frac(3, 1))
                 denominator == FracSub(d_over_s_squared, Frac(3, 1))
             IN  IF denominator.n = 0 THEN Raised("ZeroDivisionError")
                 ELSE LET ln_fraction == NpLog(FracDiv(numerator, denominator))
                      IN  IF ln_fraction.kind = "nan" THEN Returned(FloatNaN)
                          \* ln_2 / (ln_2 + ln_fraction)
                          ELSE IF ln_fraction.sign >= 0 /\ ln_fraction.kind = "finite"
                          THEN Returned(FloatPositive)
                          ELSE Returned(FloatNumber)

\* square_lateral_correction(d, a, s), app.py 132-151, with compute_am
\* (113-130)
square_lateral_correction(d, a, s) ==
    IF s = 0 THEN Raised("ZeroDivisionError")          \* a / s on Python floats
    ELSE LET a_s == Frac(a, s)
             d_s == Frac(d, s)
         IN  \* compute_am and term1 divide Python floats by d
             IF d_s.n = 0 THEN Raised("ZeroDivisionError")
             \* np.log(1 - np.exp(-4 * np.pi / d)) of a negative d is nan
             ELSE IF d_s.n < 0 THEN Returned(FloatNaN)
             ELSE Returned(FloatNumber)

MaxLength == 7
MaxSpacing == 2

CorrCalls ==
    {[fn |-> "thickness_correction", thickness |-> t, Probe_spacing |-> s] :
        t \in 0..MaxLength, s \in (-1)..MaxSpacing}
    \cup
    {[fn |-> "circle_lateral_correction", diameter |-> d, Probe_spacing |-> s] :
        d \in 0..MaxLength, s \in (-1)..MaxSpacing}
    \cup
    {[fn |-> "square_lateral_correction", d |-> d, a |-> a, s |-> s] :
        d \in 0..MaxLength, a \in 0..MaxLength, s \in (-1)..MaxSpacing}

CorrInit ==
    /\ UIAtRest
    /\ ret = NoCall
    /\ call \in CorrCalls

ThicknessCorrection ==
    /\ call.fn = "thickness_correction"
    /\ Return(thickness_correction(call.thickness, call.Probe_spacing))

CircleLateralCorrection ==
    /\ call.fn = "circle_lateral_correction"
    /\ Return(circle_lateral_correction(call.diameter, call.Probe_spacing))

SquareLateralCorrection ==
    /\ call.fn = "square_lateral_correction"
    /\ Return(square_lateral_correction(call.d, call.a, call.s))

CorrNext == ThicknessCorrection \/ CircleLateralCorrection \/ SquareLateralCorrection

CorrSpec == CorrInit /\ [][CorrNext]_vars

\* an exception of any name stands for the error the claim names
Rejected(r) == r.exc # None

\* C16: a supplied thickness must be > 0: a thickness that is not (0 for
\* one) gives an ArithmeticDomainError and no factor.  (The factor of a
\* thickness that is not supplied is 1: ThicknessComp.)
C16_NonPositiveThicknessFails ==
    (/\ ret # NoCall /\ call.fn = "thickness_correction"
     /\ call.Probe_spacing > 0 /\ call.thickness <= 0) =>
        Rejected(ret)

\* C17: circle_lateral_correction(d, s) gives an ArithmeticDomainError
\* whenever (d/s)^2 <= 3, and a finite positive factor when (d/s)^2 > 3.
C17_CircleDomain ==
    (ret # NoCall /\ call.fn = "circle_lateral_correction" /\ call.Probe_spacing # 0) =>
        IF call.diameter * call.diameter <= 3 * call.Probe_spacing * call.Probe_spacing
        THEN Rejected(ret)
        ELSE ~Rejected(ret) /\ ret.value = FloatPositive

\* C18: a dimension below 3 x spacing or a spacing that is not positive is
\* rejected with a ConfigurationError at once; no such parameter set gets
\* a factor.
C18_InvalidConfigRejected ==
    (/\ ret # NoCall /\ call.fn = "square_lateral_correction"
     /\ \/ call.s <= 0
        \/ call.a < 3 * call.s
        \/ call.d < 3 * call.s) =>
        Rejected(ret)

-----------------------------------------------------------------------------
(* The result output (app.py 738-755): the corrected sheet resistance and, *)
(* after a multi-level run with the surface left "Unknown", its class.     *)

\* x < y on float results; any comparison with nan is False
FracLt(x, y) == ~IsNaN(x) /\ ~IsNaN(y) /\ ~FracLeq(y, x)

Million == Frac(1000000, 1)

\* a class that takes one million itself for an insulator
MutSurfaceClassBelowMillion(Corr_Rsheet, test_invalid) ==
    IF FracLt(Corr_Rsheet, Frac(5, 1)) THEN "Metal"
    ELSE IF FracLeq(Frac(5, 1), Corr_Rsheet) /\ FracLt(Corr_Rsheet, Million)
    THEN "Semiconductor"
    ELSE IF test_invalid # None \/ FracLeq(Million, Corr_Rsheet) THEN "Insulator"
    ELSE "none"

\* the if / elif chain of app.py 747-755
SurfaceClass(Corr_Rsheet, test_invalid) ==
    IF FracLt(Corr_Rsheet, Frac(5, 1)) THEN "Metal"
    ELSE IF FracLeq(Frac(5, 1), Corr_Rsheet) /\ FracLeq(Corr_Rsheet, Million)
    THEN "Semiconductor"
    ELSE IF test_invalid # None \/ FracLeq(Million, Corr_Rsheet) THEN "Insulator"
    ELSE "none"

\* what the result container shows; surf is "undefined" in a run of manual
\* mode, where the script never assigns it
ResultDisplay(test_param, auto_result, test_invalid, surf) ==
    IF "Cal_V/I" \notin test_param.keys
    THEN [exc |-> None, metric |-> FALSE, class |-> "none"]
    ELSE IF "Corr_Rsheet" \notin test_param.keys
    THEN [exc |-> "KeyError", metric |-> FALSE, class |-> "none"]
    ELSE IF auto_result # "True"
    THEN [exc |-> None, metric |-> TRUE, class |-> "none"]
    ELSE IF surf = "undefined"
    THEN [exc |-> "NameError", metric |-> TRUE, class |-> "none"]
    ELSE IF surf # "Unknown"
    THEN [exc |-> None, metric |-> TRUE, class |-> "none"]
    ELSE [exc |-> None, metric |-> TRUE,
          class |-> SurfaceClass(test_param.Corr_Rsheet, test_invalid)]

\* corrected values around the two limits, in tenths and in units, and the
\* floats that are not numbers
CorrectedValues ==
    {Frac(n, 10) : n \in {-10, 0, 32, 49, 50, 51}}
    \cup {Frac(n, 1) : n \in {250, 100000, 999999, 1000000, 1000001, 2000000}}
    \cup {NaN, Frac(1, 0), Frac(-1, 0)}

ResultKeys ==
    {{"curr_value"},
     {"curr_value", "Volt_corrected", "Avg_curr", "Cal_V/I"},
     {"curr_value", "Cal_V/I", "Cal_V/I_filtered", "Avg_V/I_filtered",
      "thicknessComp", "lateralComp", "Corr_Rsheet"}}

DisplayCalls ==
    {[fn |-> "display", test_param |-> [keys |-> k, Corr_Rsheet |-> v],
      auto_result |-> a, test_invalid |-> i, surf |-> s] :
        k \in ResultKeys, v \in CorrectedValues, a \in {"True", "False"},
        i \in {None, "True"},
        s \in {"undefined", "Semiconductor", "Metal", "Unknown"}}

DisplayInit ==
    /\ UIAtRest
    /\ ret = NoCall
    /\ call \in DisplayCalls

ShowResult ==
    /\ call.fn = "display"
    /\ Return(ResultDisplay(call.test_param, call.auto_result, call.test_invalid,
                            call.surf))

DisplayNext == ShowResult

DisplaySpec == DisplayInit /\ [][DisplayNext]_vars

\* the calls in which the script classifies: a multi-level result with its
\* corrected value, the surface left "Unknown"
Classified(c) ==
    /\ c.fn = "display"
    /\ "Corr_Rsheet" \in c.test_param.keys
    /\ c.auto_result = "True"
    /\ c.surf = "Unknown"

\* C19: a valid multi-level result is classified metal-like when the
\* corrected value is below 5, semiconductor-like from 5 to 1e6 with both
\* ends included, insulator-like above 1e6; every corrected value gets
\* exactly one of the three classes (3.2 metal, 1e5 semiconductor, 2e6
\* insulator).
C19_ClassByValue ==
    (/\ ret # NoCall /\ Classified(call)
     /\ call.test_invalid = None
     /\ ~IsNaN(call.test_param.Corr_Rsheet)) =>
        LET v == call.test_param.Corr_Rsheet
            below5   == (v.d = 0 /\ v.n < 0) \/ (v.d > 0 /\ v.n < 5 * v.d)
            aboveMil == (v.d = 0 /\ v.n > 0) \/ (v.d > 0 /\ v.n > 1000000 * v.d)
        IN  /\ ret.exc = None
            /\ ret.class = (IF below5 THEN "Metal"
                            ELSE IF aboveMil THEN "Insulator"
                            ELSE "Semiconductor")
            /\ v = Frac(32, 10) => ret.class = "Metal"
            /\ v = Frac(100000, 1) => ret.class = "Semiconductor"
            /\ v = Frac(2000000, 1) => ret.class = "Insulator"

\* the upper limit itself is semiconductor-like
C19_Witness ==
    /\ ret # NoCall /\ Classified(call) /\ call.test_invalid = None
    /\ call.test_param.Corr_Rsheet = Frac(1000000, 1)
    /\ ret.class = "Semiconductor"

\* C20: whenever the overall result is flagged invalid the class is
\* insulator-like, whatever the corrected value.
C20_InvalidIsInsulator ==
    (ret # NoCall /\ Classified(call) /\ call.test_invalid # None) =>
        ret.class = "Insulator"

-----------------------------------------------------------------------------
(* What a run reports of earlier runs (app.py 575-591, 725-745).           *)

\* the warning of app.py 725-726, shown by every run that gets there
InvalidWarning == shown.exc = None /\ session_state.test_invalid # None

\* the run failed or was aborted, and no measurement of it succeeded
NoMeasurement ==
    /\ shown.aborted \/ shown.status_failed
    /\ \A k \in 1..Len(shown.calls) : ~shown.calls[k].ok

\* C21: the outcome of a run depends on that run's parameters and
\* measurement only, and nothing computed in one run is reported as part of
\* a later run: a Start Test whose run measured nothing (it failed or was
\* aborted) reports no validity flag.
C21_NothingCarriedOver ==
    (shown.click = "start" /\ NoMeasurement) => ~InvalidWarning

-----------------------------------------------------------------------------
(* The while loop of generate_square_wave, one iteration per step           *)
(* (currgen.py 86-107), on the inputs the widgets of app.py 446-449 allow.  *)

\* the calls the UI can make: length = period * repeats
LoopCalls ==
    {[fn |-> "generate_square_wave", magnitude |-> -6,
      length |-> p * r, high_value |-> 50, low_value |-> -50, period |-> p,
      duty_cycle |-> dc, init_time |-> t, repeats |-> r] :
        p \in 0..MaxPeriod, dc \in DutyCycles, t \in 0..MaxInit, r \in 0..MaxRepeats}

LoopInit == UIAtRest /\ call \in LoopCalls /\ ret = NoCall

\* lines 82-92: scaling, zeros(length), high_duration, i = init_time
SquareWaveEnter ==
    /\ ret = NoCall
    /\ ret' = [pc |-> "while", i |-> call.init_time,
               square_wave |-> [j \in 1..call.length |-> 0]]
    /\ UNCHANGED <<session_state, shown, run_failed, call>>

\* an iteration that forgets the second advance of the write index
MutSquareWaveBodyOneAdvance(st, length, high_value, low_value, period, high_duration) ==
    IF ~(st.i + high_duration <= length)
    THEN [pc |-> "return", i |-> st.i,
          square_wave |-> SliceAssign(st.square_wave, st.i, length, high_value)]
    ELSE LET w1 == SliceAssign(st.square_wave, st.i, st.i + high_duration, high_value)
             i1 == st.i + high_duration
         IN  IF ~(i1 + (period - high_duration) <= length)
             THEN [pc |-> "return", i |-> i1,
                   square_wave |-> SliceAssign(w1, i1, length, low_value)]
             ELSE [pc |-> "while", i |-> i1,
                   square_wave |-> SliceAssign(w1, i1, i1 + (period - high_duration),
                                               low_value)]

\* lines 94-105: the body of the while loop, from the loop state st
SquareWaveBody(st, length, high_value, low_value, period, high_duration) ==
    IF ~(st.i + high_duration <= length)
    THEN [pc |-> "return", i |-> st.i,
          square_wave |-> SliceAssign(st.square_wave, st.i, length, high_value)]
    ELSE LET w1 == SliceAssign(st.square_wave, st.i, st.i + high_duration, high_value)
             i1 == st.i + high_duration
         IN  IF ~(i1 + (period - high_duration) <= length)
             THEN [pc |-> "return", i |-> i1,
                   square_wave |-> SliceAssign(w1, i1, length, low_value)]
             ELSE [pc |-> "while", i |-> i1 + (period - high_duration),
                   square_wave |-> SliceAssign(w1, i1, i1 + (period - high_duration),
                                               low_value)]

\* line 93 true: one iteration
SquareWaveIterate ==
    /\ ret # NoCall /\ ret.pc = "while"
    /\ ret.i < call.length
    /\ ret' = SquareWaveBody(ret, call.length,
                             call.high_value * Pow10(call.magnitude + 6),
                             call.low_value * Pow10(call.magnitude + 6),
                             call.period,
                             HighDuration(call.period, call.duty_cycle))
    /\ UNCHANGED <<session_state, shown, run_failed, call>>

\* line 93 false: the loop is left
SquareWaveExit ==
    /\ ret # NoCall /\ ret.pc = "while"
    /\ ~(ret.i < call.length)
    /\ ret' = [ret EXCEPT !.pc = "return"]
    /\ UNCHANGED <<session_state, shown, run_failed, call>>

LoopNext == SquareWaveEnter \/ SquareWaveIterate \/ SquareWaveExit

LoopSpec == LoopInit /\ [][LoopNext]_vars

\* the interpreter keeps executing the call until it returns
LoopFairSpec == LoopSpec /\ WF_vars(LoopNext)

SquareWaveReturned == ret # NoCall /\ ret.pc = "return"

\* C24: generate_square_wave terminates for every input the UI can supply
\* (period >= 0, duty in [0, 1], init_time >= 0, repeats >= 0, length =
\* period * repeats), period 0 and duty 0 or 1 included: each iteration of
\* the loop either breaks or strictly advances the write index, and the call
\* returns.
C24_SquareWaveTerminates ==
    /\ [][SquareWaveIterate => (ret'.pc = "return" \/ ret'.i > ret.i)]_vars
    /\ <>SquareWaveReturned

\* a call with duty 0 that ran the loop to the end of the array
C24_Witness ==
    /\ SquareWaveReturned
    /\ call.duty_cycle.num = 0
    /\ call.period > 0 /\ call.repeats = 2
    /\ ret.i >= call.length
    /\ \A j \in 1..call.length :
           ret.square_wave[j] = IF j <= call.init_time THEN 0 ELSE -50

-----------------------------------------------------------------------------
(* target_op.py: the methods of B2900_target_control, one driver call per   *)
(* step, against an instrument with `count` output channels and an error    *)
(* queue.  `call` is the method call and the instrument it meets, `ret` the *)
(* position in the method, the driver calls made and the value returned.    *)

MaxChannels == 2
MaxQueries == 3

\* codes waiting in the instrument's error queue when the method starts
ErrorQueues == {<<>>, <<301>>, <<-113>>, <<-113, 301>>}

\* persistent: a fault that makes every error query report it again, so that
\* the instrument never reports code 0
DriverCalls ==
    {[fn |-> f, count |-> n, selected_channel |-> s, listed |-> m,
      queue |-> q, persistent |-> p] :
        f \in {"__init__", "channel_model_query", "calibrate"},
        n \in {1}, s \in {1}, m \in {TRUE}, q \in ErrorQueues, p \in BOOLEAN}
    \cup
    {[fn |-> "Measure_List", count |-> n, selected_channel |-> s, listed |-> m,
      queue |-> q, persistent |-> p] :
        n \in 0..MaxChannels, s \in 1..MaxChannels, m \in BOOLEAN,
        q \in ErrorQueues, p \in BOOLEAN}

NotReturned == [t |-> "none"]

DriverStart(c) ==
    [pc |-> "try", i |-> 0, calls |-> <<>>, queue |-> c.queue, queries |-> 0,
     fetched_error |-> <<>>, dResult |-> FALSE, value |-> NotReturned]

\* a selected channel is one of the names of driver.outputs (app.py 342-351)
DriverInit ==
    /\ UIAtRest
    /\ call \in DriverCalls
    /\ call.fn = "Measure_List" /\ call.count > 0 => call.selected_channel <= call.count
    /\ call.fn = "Measure_List" /\ call.count = 0 => call.selected_channel = 1
    /\ ret = DriverStart(call)

DriverStep(next) ==
    /\ ret' = next
    /\ UNCHANGED <<session_state, shown, run_failed, call>>

\* lines 40-55, 86-93, 134-138, 231-240: what precedes the loops
Prepare ==
    /\ ret.pc = "try"
    /\ DriverStep([ret EXCEPT !.pc = IF call.fn = "Measure_List" THEN "for"
                                     ELSE "error_query"])

\* lines 141-175: the settings of channel i + 1; compliance voltage, nplc and
\* the trigger counts are written only for the listed model numbers
Configure ==
    /\ ret.pc = "for" /\ ret.i < call.count
    /\ DriverStep([ret EXCEPT
           !.pc = "initiate",
           !.calls = Append(@, [op |-> "configure", ch |-> ret.i + 1,
                                full |-> call.listed])])

\* lines 177-179: driver.trigger.initiate("(@selected_channel)")
Initiate ==
    /\ ret.pc = "initiate"
    /\ DriverStep([ret EXCEPT
           !.pc = "fetch",
           !.calls = Append(@, [op |-> "initiate", ch |-> call.selected_channel,
                                full |-> FALSE])])

\* line 180: dResult = fetch_array_data(ALL, chan_list)
Fetch ==
    /\ ret.pc = "fetch"
    /\ DriverStep([ret EXCEPT
           !.pc = "disable", !.dResult = TRUE,
           !.calls = Append(@, [op |-> "fetch", ch |-> call.selected_channel,
                                full |-> FALSE])])

\* lines 187-188: outputs[k].enabled = False for every k, then the next i
DisableOutputs ==
    /\ ret.pc = "disable"
    /\ DriverStep([ret EXCEPT
           !.pc = "for", !.i = @ + 1,
           !.calls = @ \o [k \in 1..call.count |->
                              [op |-> "disable", ch |-> k, full |-> FALSE]]])

\* line 139 exhausted
EndFor ==
    /\ ret.pc = "for" /\ ~(ret.i < call.count)
    /\ DriverStep([ret EXCEPT !.pc = "error_query"])

\* driver.utility.error_query() on the instrument: the oldest code waiting,
\* 0 when the queue is empty
ErrorCode(st, persistent) ==
    IF st.queue # <<>> THEN Head(st.queue)
    ELSE IF persistent THEN 301 ELSE 0

\* `outVal = error_query(); fetched_error = outVal` of the loops
\* `while True: ...; if outVal[0] == 0: break` (lines 59-63, 96-102,
\* 190-196, 243-249)
DrainIteration(st, persistent) ==
    LET outVal == ErrorCode(st, persistent)
    IN  [st EXCEPT !.queue = IF @ = <<>> THEN @ ELSE Tail(@),
                   !.queries = IF @ < MaxQueries THEN @ + 1 ELSE @,
                   !.fetched_error = <<outVal>>,
                   !.pc = "break_test"]

ErrorQuery ==
    /\ ret.pc = "error_query"
    /\ DriverStep(DrainIteration(ret, call.persistent))

\* `if outVal[0] == 0: break`, the only way out of the loop
BreakTest ==
    /\ ret.pc = "break_test"
    /\ DriverStep([ret EXCEPT !.pc = IF ret.fetched_error[1] = 0 THEN "after"
                                     ELSE "error_query"])

\* what each method returns after its loop (lines 63, 103, 198-200, 251);
\* with no channel dResult was never assigned and line 198 raises NameError
AfterDrain ==
    /\ ret.pc = "after"
    /\ DriverStep(
           IF call.fn = "Measure_List" /\ ~ret.dResult
           THEN [ret EXCEPT !.pc = "except"]
           ELSE [ret EXCEPT
                    !.pc = "returned",
                    !.value = [t |-> IF call.fn = "channel_model_query"
                                     THEN "tuple3"
                                     ELSE IF call.fn = "__init__" THEN "object"
                                     ELSE IF call.fn = "Measure_List" THEN "data"
                                     ELSE "tuple2",
                               fetched_error |-> ret.fetched_error]])

\* any driver call inside the try block may raise (I/O error, timeout)
DriverRaises ==
    /\ ret.pc \in {"try", "for", "initiate", "fetch", "disable", "error_query"}
    /\ ret.pc = "for" => ret.i < call.count
    /\ DriverStep([ret EXCEPT !.pc = "except"])

\* the except blocks (lines 65-67, 105-107, 202-205, 252-253)
Except ==
    /\ ret.pc = "except"
    /\ DriverStep([ret EXCEPT
           !.pc = "returned",
           !.value = [t |-> IF call.fn = "Measure_List" THEN "str"
                            ELSE IF call.fn = "channel_model_query" THEN "exc2"
                            ELSE IF call.fn = "__init__" THEN "error"
                            ELSE "None",
                      fetched_error |-> <<>>]])

DriverNext ==
    \/ Prepare \/ Configure \/ Initiate \/ Fetch \/ DisableOutputs \/ EndFor
    \/ ErrorQuery \/ BreakTest \/ AfterDrain \/ DriverRaises \/ Except

DriverSpec == DriverInit /\ [][DriverNext]_vars

\* the interpreter keeps executing the method until it returns; whether a
\* driver call raises is up to the instrument
MethodStep ==
    \/ Prepare \/ Configure \/ Initiate \/ Fetch \/ DisableOutputs \/ EndFor
    \/ ErrorQuery \/ BreakTest \/ AfterDrain \/ Except

DriverFairSpec == DriverSpec /\ WF_vars(MethodStep)

DriverReturned == ret.pc = "returned"

\* the calls of one kind the method has made on the driver
DriverCallsMade(op) == {k \in 1..Len(ret.calls) : ret.calls[k].op = op}

\* C22: draining the error queue (constructor, channel_model_query,
\* Measure_List, calibrate) ends after a bounded number of error queries even
\* when the instrument never reports code 0: every call of these methods
\* returns.
C22_DrainTerminates == <>DriverReturned

\* C27: within one Measure_List call the selected channel has been fully
\* configured (type, range, list, compliance voltage, trigger counts) before
\* the trigger is initiated on it, whatever the channel count and the
\* selected channel, and a call that returns data initiated exactly once.
C27_ConfiguredBeforeInitiate ==
    call.fn = "Measure_List" =>
        /\ \A k \in DriverCallsMade("initiate") :
               \E j \in DriverCallsMade("configure") :
                   /\ j < k
                   /\ ret.calls[j].ch = ret.calls[k].ch
                   /\ ret.calls[j].full
        /\ (DriverReturned /\ ret.value.t = "data") =>
               Cardinality(DriverCallsMade("initiate")) = 1

\* C28: whenever Measure_List returns, with data or with the failure string
\* after an exception at any step, every output channel has been set to
\* disabled.
C28_OutputsDisabledAtReturn ==
    (call.fn = "Measure_List" /\ DriverReturned) =>
        \A ch \in 1..call.count :
            \E k \in DriverCallsMade("disable") : ret.calls[k].ch = ch

\* `if st.session_state.device_param[2][0] > 0` (app.py 339)
ErrorIndication(device_param) == device_param.fetched_error[1] > 0

\* C29: when the error queue holds an error as channel_model_query runs, the
\* fetched_error it returns carries that non-zero code, and for a positive
\* code the UI shows its device-error indication.
C29_QueuedErrorReturned ==
    (call.fn = "channel_model_query" /\ DriverReturned
        /\ ret.value.t = "tuple3" /\ call.queue # <<>>) =>
        /\ \E k \in 1..Len(call.queue) : ret.value.fetched_error[1] = call.queue[k]
        /\ (\E k \in 1..Len(call.queue) : call.queue[k] > 0)
               => ErrorIndication(ret.value)

-----------------------------------------------------------------------------
(* The filtered ratios of a multi-level run (app.py 53-69, 697-698).        *)

\* a is b with some elements left out, order kept
RECURSIVE IsSubsequence(_, _)
IsSubsequence(a, b) ==
    IF a = <<>> THEN TRUE
    ELSE IF b = <<>> THEN FALSE
    ELSE IF Head(a) = Head(b) THEN IsSubsequence(Tail(a), Tail(b))
    ELSE IsSubsequence(a, Tail(b))

\* C25: for every non-empty list of per-level ratios the filter returns a
\* non-empty subsequence of it, in order, holding at least half of its
\* elements, so that the average of the surviving ratios is defined.
C25_FilterKeepsHalf ==
    (ret # NoCall /\ call.fn = "auto" /\ ret.test_param.Cal_VI # <<>>) =>
        LET tp == ret.test_param
        IN  /\ tp.Cal_VI_filtered # <<>>
            /\ IsSubsequence(tp.Cal_VI_filtered, tp.Cal_VI)
            /\ 2 * Len(tp.Cal_VI_filtered) >= Len(tp.Cal_VI)
            /\ ~IsNaN(tp.Avg_VI_filtered)

-----------------------------------------------------------------------------
(* The two reversal windows of a series against the waveform that was       *)
(* forced (app.py 649-652, 686-690; currgen.py 91-107).                     *)

\* a switch index that forgets the initial zeros
MutReversePNoInitialZero(test_param) ==
    HighDuration(test_param.period, test_param.duty_cycle)

\* reverse_p = initial_zero + int(period * duty_cycle)
ReverseP(test_param) ==
    test_param.initial_zero + HighDuration(test_param.period, test_param.duty_cycle)

\* series[initial_zero : reverse_p]
HighWindow(test_param, series) ==
    Slice(series, test_param.initial_zero, ReverseP(test_param))

\* series[reverse_p : initial_zero + period]
LowWindow(test_param, series) ==
    Slice(series, ReverseP(test_param), test_param.initial_zero + test_param.period)

\* the samples the two windows take out of the waveform of the call
ForcedHigh == HighWindow(call, ret.square_wave)
ForcedLow  == LowWindow(call, ret.square_wave)

\* the first cycle lies within the series
FirstCycleFits == call.initial_zero + call.period <= Len(ret.square_wave)

\* every sample of the first window was forced high and every sample of the
\* second forced low, so that neither holds an initial zero; when the first
\* cycle fits the windows are the whole high and the whole low part
WindowsAligned ==
    /\ \A j \in 1..Len(ForcedHigh) : ForcedHigh[j] = call.value
    /\ \A j \in 1..Len(ForcedLow) : ForcedLow[j] = -call.value
    /\ FirstCycleFits =>
          /\ Len(ForcedHigh) = HighDuration(call.period, call.duty_cycle)
          /\ Len(ForcedLow) = call.period - HighDuration(call.period, call.duty_cycle)

\* C26 as stated: the reversal windows line up with the forcing waveform, and
\* both are non-empty whenever 0 < duty < 1 and the first cycle fits.
C26_WindowsNonEmpty ==
    (ret # NoCall /\ call.fn = "test_run_wave") =>
        /\ WindowsAligned
        /\ (0 < call.duty_cycle.num /\ call.duty_cycle.num < call.duty_cycle.den
              /\ FirstCycleFits)
              => (ForcedHigh # <<>> /\ ForcedLow # <<>>)

\* C26, amended: the reversal windows line up with the forcing waveform; when
\* the first cycle fits, the high window is non-empty exactly when
\* floor(period * duty) >= 1 and the low window exactly when
\* floor(period * duty) < period.
C26_WindowsAligned ==
    (ret # NoCall /\ call.fn = "test_run_wave") =>
        /\ WindowsAligned
        /\ FirstCycleFits =>
              /\ ForcedHigh # <<>> <=> call.period * call.duty_cycle.num >= call.duty_cycle.den
              /\ ForcedLow # <<>> <=> call.duty_cycle.num < call.duty_cycle.den

\* a run with initial zeros whose first cycle fits, duty strictly between 0
\* and 1, and no sample in the high window
C26_Witness ==
    /\ ret # NoCall /\ call.fn = "test_run_wave"
    /\ call.initial_zero > 0 /\ FirstCycleFits
    /\ call.duty_cycle = [num |-> 1, den |-> 4] /\ call.period = 3
    /\ ForcedHigh = <<>>
    /\ ForcedLow = <<-50, -50, -50>>

-----------------------------------------------------------------------------
(* Connection state over the UI events (app.py 163-181, 322-368, 582-591,   *)
(* 629-633).                                                                *)

\* Connected only with a device object, and every Measure_List call of the
\* event made while Connected
ConnectedHasDevice ==
    /\ session_state.Connected => session_state.device = "open"
    /\ \A k \in 1..Len(shown.calls) : shown.calls[k].connected
    /\ shown.calls # <<>> => session_state.device = "open"

\* a Disconnect finds the device object, which it closes and deletes
\* (app.py 362-367), and leaves the session not connected
DisconnectCloses ==
    shown'.click = "disconnect" =>
        /\ session_state.device = "open"
        /\ session_state'.device = Absent
        /\ ~session_state'.Connected
        /\ shown'.calls = <<>>

\* C30: over any sequence of UI events, Connected is true only while a
\* device object whose initialization reported no error exists,
\* Measure_List is invoked only while Connected is true, and after
\* Disconnect the driver has been closed and no measurement is invoked until
\* a new successful connection.
C30_ConnectedLifecycle ==
    /\ []ConnectedHasDevice
    /\ [][DisconnectCloses]_vars
    /\ [](~session_state.Connected => shown.calls = <<>>)

\* a test confirmed after Disconnect: the run stops at the missing device
\* object before any measurement
C30_Witness ==
    /\ ~session_state.Connected
    /\ session_state.device = Absent
    /\ session_state.test_initiated
    /\ shown.exc = "AttributeError"
    /\ shown.calls = <<>>

-----------------------------------------------------------------------------
(* square_lateral_correction in numbers (app.py 113-151).  A real value is  *)
(* kept as an enclosure [lo, hi] of whole multiples of 10^-4 (sums of       *)
(* series terms: of 10^-8), every operation rounding lo down and hi up, so  *)
(* that the value the code computes lies within (a double's own rounding,   *)
(* about 10^-16, is far below the last digit).  Lengths d, a, s are whole   *)
(* multiples of one unit, 0.8 mm in the calls below.                        *)

Scale == Pow10(4)

Enc(lo, hi) == [lo |-> lo, hi |-> hi]
CeilDiv(a, b) == (a + b - 1) \div b

\* floor(x * y / z) without leaving 32 bits
MulDiv(x, y, z) == (x \div z) * y + ((x % z) * y) \div z

EncAdd(x, y) == Enc(x.lo + y.lo, x.hi + y.hi)
\* product and quotient of enclosures of values >= 0
EncMul(x, y) == Enc((x.lo * y.lo) \div Scale, CeilDiv(x.hi * y.hi, Scale))
EncDiv(x, y) == Enc((x.lo * Scale) \div y.hi, CeilDiv(x.hi * Scale, y.lo))

\* np.pi, np.log(2), and e^-1
Pi   == Enc(31415, 31416)
Ln2  == Enc(6931, 6932)
EInv == Enc(3678, 3679)

\* e^-(f / Scale) for 0 <= f < Scale: the alternating series up to n = 9,
\* term t of index n - 1 and partial sum acc; the rest is below 1 / 10!
RECURSIVE TaylorExpNeg(_, _, _, _)
TaylorNext(f, n, t, acc) ==
    TaylorExpNeg(f, n + 1, t,
                 IF n % 2 = 1 THEN Enc(acc.lo - t.hi, acc.hi - t.lo)
                 ELSE Enc(acc.lo + t.lo, acc.hi + t.hi))

TaylorExpNeg(f, n, t, acc) ==
    IF n > 9
    THEN Enc(IF acc.lo > 1 THEN acc.lo - 1 ELSE 0, acc.hi + 1)
    ELSE TaylorNext(f, n, Enc((t.lo * f) \div (n * Scale),
                              CeilDiv(t.hi * f, n * Scale)), acc)

\* e^-k
RECURSIVE PowE(_)
PowE(k) == IF k = 0 THEN Enc(Scale, Scale) ELSE EncMul(PowE(k - 1), EInv)

\* np.exp(-v / Scale), v >= 0; below e^-10 the value is under one unit
ExpNeg(v) ==
    IF v \div Scale >= 10 THEN Enc(0, 1)
    ELSE EncMul(PowE(v \div Scale),
                TaylorExpNeg(v % Scale, 1, Enc(Scale, Scale), Enc(Scale, Scale)))

\* a bound of pi * num / den; from 4 pi on, any value above 10 serves
PiTimes(num, den, up) ==
    IF num \div den >= 4 THEN 13 * Scale
    ELSE IF up THEN Pi.hi * (num \div den) + CeilDiv(Pi.hi * (num % den), den)
    ELSE Pi.lo * (num \div den) + (Pi.lo * (num % den)) \div den

\* np.exp(-pi * num / den)
ExpNegPi(num, den) ==
    Enc(ExpNeg(PiTimes(num, den, TRUE)).lo, ExpNeg(PiTimes(num, den, FALSE)).hi)

OneMinus(x) == Enc(Scale - x.hi, Scale - x.lo)
OnePlus(x)  == Enc(Scale + x.lo, Scale + x.hi)

\* -np.log(x) for 0 < x <= 1, by bisection on ExpNeg: an L with
\* ExpNeg(L).hi <= x.lo is an upper bound, one with ExpNeg(L).lo >= x.hi a
\* lower bound
Unbounded == Pow10(8)

RECURSIVE BisectUpper(_, _, _)
BisectUpper(x, lo, hi) ==
    IF hi - lo <= 1 THEN hi
    ELSE IF ExpNeg((lo + hi) \div 2).hi <= x
         THEN BisectUpper(x, lo, (lo + hi) \div 2)
         ELSE BisectUpper(x, (lo + hi) \div 2, hi)

RECURSIVE BisectLower(_, _, _)
BisectLower(x, lo, hi) ==
    IF hi - lo <= 1 THEN lo
    ELSE IF ExpNeg((lo + hi) \div 2).lo >= x
         THEN BisectLower(x, (lo + hi) \div 2, hi)
         ELSE BisectLower(x, lo, (lo + hi) \div 2)

NegLog(x) ==
    Enc(IF ExpNeg(0).lo >= x.hi THEN BisectLower(x.hi, 0, 10 * Scale) ELSE 0,
        IF x.lo >= 1 THEN BisectUpper(x.lo, 0, 10 * Scale) ELSE Unbounded)

\* compute_am(m, a/s, d/s, s) in units of 10^-8:
\* (1/m) * term1 * (term2 * term3) / term4, with (a/s - 2) * m / (d/s) =
\* (a - 2s) * m / d
AmQuotient(term1, term2, term3, term4, m) ==
    Enc((EncDiv(EncMul(EncMul(term1, term2), term3), term4).lo * Scale) \div m,
        CeilDiv(EncDiv(EncMul(EncMul(term1, term2), term3), term4).hi * Scale, m))

compute_am(m, a, d, s) ==
    AmQuotient(ExpNegPi(2 * (a - 2 * s) * m, d),
               OneMinus(ExpNegPi(6 * m * s, d)),
               OneMinus(ExpNegPi(2 * m * s, d)),
               OnePlus(ExpNegPi(2 * m * s, d)),
               m)

\* term1 + term2 + term3 of square_lateral_correction (lines 148-150)
LateralBase(d, s) ==
    LET term1  == Enc((Pi.lo * s) \div d, CeilDiv(Pi.hi * s, d))
        nterm2 == NegLog(OneMinus(ExpNegPi(4 * s, d)))
        term3  == NegLog(OneMinus(ExpNegPi(2 * s, d)))
    IN  Enc(term1.lo - nterm2.hi + term3.lo, term1.hi - nterm2.lo + term3.hi)

\* a sum of terms, from units of 10^-8 to units of 10^-4
Rounded(sum) == Enc(sum.lo \div Scale, CeilDiv(sum.hi, Scale))

\* np.log(2) / (term1 + term2 + term3 + sum_am), line 151
LateralResult(base, sum_am) == EncDiv(Ln2, EncAdd(base, Rounded(sum_am)))

DefaultNumTerms == 50

\* square samples of the UI (sides >= 3 * spacing, spacing 1.6 mm = 2 units):
\* 76 x 76 mm, 4.8 x 4.8 mm, and strips 4.8 or 6.4 mm wide, up to 300 mm long
SeriesCalls ==
    {[fn |-> "square_lateral_correction", d |-> g[1], a |-> g[2], s |-> 2,
      num_terms |-> 4 * DefaultNumTerms] :
        g \in {<<95, 95>>, <<6, 6>>, <<95, 6>>, <<6, 95>>, <<125, 8>>,
               <<250, 6>>, <<375, 6>>}}

SeriesInit ==
    /\ UIAtRest
    /\ call \in SeriesCalls
    /\ ret = [pc |-> "sum", m |-> 0, head |-> Enc(0, 0), tail |-> Enc(0, 0),
              base |-> Enc(0, 0)]

\* the next term of the list summed at line 147; the call with the default
\* num_terms sums the first 50 of them (head), the longer one also the rest
AddTerm ==
    /\ ret.pc = "sum" /\ ret.m < call.num_terms
    /\ ret' = IF ret.m < DefaultNumTerms
              THEN [ret EXCEPT !.m = @ + 1,
                      !.head = EncAdd(@, compute_am(ret.m + 1, call.a, call.d, call.s))]
              ELSE [ret EXCEPT !.m = @ + 1,
                      !.tail = EncAdd(@, compute_am(ret.m + 1, call.a, call.d, call.s))]
    /\ UNCHANGED <<session_state, shown, run_failed, call>>

\* lines 148-151
FinishSeries ==
    /\ ret.pc = "sum" /\ ret.m = call.num_terms
    /\ ret' = [ret EXCEPT !.pc = "returned", !.base = LateralBase(call.d, call.s)]
    /\ UNCHANGED <<session_state, shown, run_failed, call>>

SeriesNext == AddTerm \/ FinishSeries

SeriesSpec == SeriesInit /\ [][SeriesNext]_vars

\* the two results are ln2 / D and ln2 / (D + T), D = base + head and T =
\* tail, so they differ by ln2 * T / (D * (D + T)); this is at least
\* ln2.lo * T.lo / (D.hi * (D.hi + T.hi)), here in units of 10^-8
DifferenceAtLeast(base, head, tail) ==
    LET D  == EncAdd(base, Rounded(head))
        DT == EncAdd(D, Rounded(tail))
    IN  IF DT.hi >= 4 * Scale \/ D.lo <= 0 THEN 0
        ELSE MulDiv(tail.lo, Ln2.lo, CeilDiv(D.hi * DT.hi, Scale))

\* C23: for square samples with sides of at least 3 * spacing, the lateral
\* correction computed with 50 terms and with 200 terms differ by less than
\* 1e-6 (76 x 76 mm at spacing 1.6 mm among them).
C23_TermsAgree ==
    ret.pc = "returned" => DifferenceAtLeast(ret.base, ret.head, ret.tail) < 100

=============================================================================
